---- MODULE Spec2Model ----
(***************************************************************************)
(* Radiance panel analytics (src/server.js, and the dashboard server of    *)
(* src/unnamed/part_001): the transaction store, the metric endpoints      *)
(* that query it, the filter contract and the trust-level functions; and   *)
(* the dashboard page (src/public/app.js): its filters, its dropdowns and  *)
(* their cache, its requests in flight and what it renders.                *)
(*                                                                         *)
(* Conventions of the model                                                *)
(*  - ledger is the set of rows of analytics.radiance_base_v1 with a       *)
(*    non-null user_id. The requests of the capture, waterfall, loyalty    *)
(*    and deck handlers use reconcile_ok = NULL (the default,              *)
(*    FILTER_DEFAULTS.reconcile_ok), so the reconcile join keeps every     *)
(*    row; the store of the last section carries reconcile_ok per invoice  *)
(*    and its requests may set the filter.                                 *)
(*  - invoice_date is modelled by its month (DATE_TRUNC('month', ...)),    *)
(*    a number from 1; a window is [start, end) over months. In a request  *)
(*    an absent date is NullNum and a text that is no date is 0.           *)
(*  - the error of a 400 answer is the sequence of its reasons (the code   *)
(*    joins them with '; ').                                               *)
(*  - money is an integer number of mills (1/1000 USD): line_total is a    *)
(*    SQL numeric and nothing in the code bounds its scale to cents.       *)
(*    Amounts are even numbers of mills, so no sum is an exact half cent   *)
(*    (where Math.round and IEEE doubles could disagree).                  *)
(*  - a percentage is an integer number of hundredths of a percent         *)
(*    (the SQL ROUND(..., 2) result times 100).                            *)
(*  - cufe is the invoice number within one (user, month, issuer); in the  *)
(*    store of the last section it is the tuple that names the invoice.    *)
(*  - a handler of the page runs from an event to its next await; an       *)
(*    answer that arrives runs the code that awaited it. The server's      *)
(*    answer to a request is computed from ledger and the request's URL.   *)
(***************************************************************************)
EXTENDS Integers, FiniteSets, Sequences, TLC

VARIABLES
  ledger,   \* rows of analytics.radiance_base_v1
  cte,      \* intermediate rows (CTEs) of the last query, for inspection
  resp,     \* body of the last HTTP response
  \* the dashboard page (src/public/app.js)
  globalFilters,    \* the filters every request of the page is built from
  childrenCache,    \* cache of category children, by level and parent path
  abortController,  \* controller for cancelling stale requests
  dom,              \* the controls and what the page shows
  pending,          \* requests in flight, each with the code that awaits it
  started           \* the requests the page has sent, in order: who awaits each

browser == <<globalFilters, childrenCache, abortController, dom, pending, started>>

vars == <<ledger, cte, resp, browser>>

\* ------------------------------------------------------------------ bounds
MaxLines == 4

\* ------------------------------------------------------------ SQL helpers
Null == "<null>"          \* SQL NULL / JS null of a text value
NullNum == 0 - 1          \* SQL NULL of a (non-negative) numeric value
UNKNOWN == "UNKNOWN"
OTHER_SUPPRESSED == "OTHER_SUPPRESSED"

COALESCE(v, d) == IF v = Null THEN d ELSE v

\* SUM(f[x]) over the rows x of S (f is a function on S)
RECURSIVE SUM(_, _)
SUM(S, f) ==
  IF S = {} THEN 0
  ELSE LET x == CHOOSE y \in S : TRUE IN f[x] + SUM(S \ {x}, f)

COUNT(S) == Cardinality(S)

\* ROUND(100.0 * num / NULLIF(den, 0), 2), in hundredths of a percent;
\* Null when den = 0 (num, den >= 0; numeric ROUND rounds half away from 0)
\* (long division in two steps of 100, so that amounts in mills stay
\* within 32 bits)
RoundPct(num, den) ==
  IF den = 0 THEN NullNum
  ELSE LET q1 == (100 * num) \div den
           r1 == (100 * num) % den
           q2 == (100 * r1) \div den
           r2 == (100 * r1) % den
       IN 100 * q1 + q2 + (IF 2 * r2 >= den THEN 1 ELSE 0)

\* Number(v) of a value returned by the driver: Number(null) is 0
Number(v) == IF v = NullNum THEN 0 ELSE v

\* Math.round(Number(v) * 100) / 100 of an amount in mills, in cents
RoundCents(v) == (Number(v) + 5) \div 10

NoResp == [endpoint |-> "none"]
NoCte == [query |-> "none"]

\* ------------------------------------------------------------ the store
X == "X"
Y == "Y"
FOOD == "FOOD"
DRINK == "DRINK"

Line(u, m, i, c, cat, b, a) ==
  [user |-> u, month |-> m, issuer |-> i, cufe |-> c, cat |-> cat, brand |-> b, amount |-> a]

\* b.invoice_date >= $1::date AND b.invoice_date < $2::date
InWindow(l, start, end) == l.month >= start /\ l.month < end

BLANK == " "

\* TRIM / String.prototype.trim on the texts of the ledger and the requests
TRIM(v) == IF v = BLANK THEN "" ELSE v

\* parseString: the trimmed text when it is a non-blank string, else null
parseStringMutNoTrim(v) == IF v = Null \/ v = "" THEN Null ELSE v

parseString(v) == IF v = Null \/ TRIM(v) = "" THEN Null ELSE TRIM(v)

\* ------------------------------------------------------------ filter contract
\* a date is a month number; an absent date is NullNum, a text that is no
\* date is 0
k_threshold_default == 5

\* parseKThreshold: parseInt, FILTER_DEFAULTS.k_threshold when NaN or < 1
parseKThreshold(val) == IF val = NullNum \/ val < 1 THEN k_threshold_default ELSE val

VALID_LEVELS == {"l1", "l2", "l3", "l4"}
VALID_DOMAINS == {"product", "commerce"}

CAT_COLS ==
  [product |-> [l1 |-> "category_l1", l2 |-> "category_l2", l3 |-> "category_l3", l4 |-> "category_l4"],
   commerce |-> [l1 |-> "commerce_l1", l2 |-> "commerce_l2", l3 |-> "commerce_l3", l4 |-> "commerce_l4"]]

\* String.prototype.toLowerCase on the texts of the requests
toLowerCase(v) == IF v = "L2" THEN "l2" ELSE IF v = "Commerce" THEN "commerce" ELSE v

\* parseDate: the ISO date, null when absent or not a date
parseDate(val) == IF val < 1 THEN NullNum ELSE val

resolveCatCol(domain, level) ==
  LET d == IF domain \in DOMAIN CAT_COLS THEN CAT_COLS[domain] ELSE CAT_COLS.product
  IN IF level \in DOMAIN d THEN d[level] ELSE d.l1

\* the drill-down level of parseFilters
groupByLevelMutShallow(productPath, categoryLevel) ==
  IF productPath.l1 # Null /\ productPath.l2 = Null THEN "l2"
  ELSE IF productPath.l2 # Null /\ productPath.l3 = Null THEN "l2"
  ELSE IF productPath.l3 # Null /\ productPath.l4 = Null THEN "l4"
  ELSE IF productPath.l4 # Null THEN "l4"
  ELSE categoryLevel

groupByLevel(productPath, categoryLevel) ==
  IF productPath.l1 # Null /\ productPath.l2 = Null THEN "l2"
  ELSE IF productPath.l2 # Null /\ productPath.l3 = Null THEN "l3"
  ELSE IF productPath.l3 # Null /\ productPath.l4 = Null THEN "l4"
  ELSE IF productPath.l4 # Null THEN "l4"
  ELSE categoryLevel

NoPath == [l1 |-> Null, l2 |-> Null, l3 |-> Null, l4 |-> Null]

Request(start, end, issuer_ruc, category_level, category_domain, category_value, path) ==
  [start |-> start, end |-> end, issuer_ruc |-> issuer_ruc, k_threshold |-> NullNum,
   category_level |-> category_level, category_domain |-> category_domain,
   category_value |-> category_value,
   category_l1 |-> path.l1, category_l2 |-> path.l2, category_l3 |-> path.l3, category_l4 |-> path.l4]

Options(requireIssuer, requireDates, requireCategoryValue, supportsCategoryPath) ==
  [requireIssuer |-> requireIssuer, requireDates |-> requireDates,
   requireCategoryValue |-> requireCategoryValue, supportsCategoryPath |-> supportsCategoryPath]

\* filters.invalid, the reasons in the order they are pushed
invalidReasons(q, options) ==
  (IF options.requireDates /\ parseDate(q.start) = NullNum
   THEN <<"Invalid or missing start date">> ELSE <<>>)
  \o (IF options.requireDates /\ parseDate(q.end) = NullNum
      THEN <<"Invalid or missing end date">> ELSE <<>>)
  \o (IF options.requireIssuer /\ parseString(q.issuer_ruc) = Null
      THEN <<"issuer_ruc is required">> ELSE <<>>)
  \o (IF options.requireCategoryValue /\ parseString(q.category_value) = Null
      THEN <<"category_value is required">> ELSE <<>>)

parseFilters(q, options) ==
  LET categoryLevel == IF q.category_level # Null /\ toLowerCase(q.category_level) \in VALID_LEVELS
                       THEN toLowerCase(q.category_level) ELSE "l1"
      categoryDomain == IF q.category_domain # Null /\ toLowerCase(q.category_domain) \in VALID_DOMAINS
                        THEN toLowerCase(q.category_domain) ELSE "product"
      productPath == IF options.supportsCategoryPath
                     THEN [l1 |-> parseString(q.category_l1), l2 |-> parseString(q.category_l2),
                           l3 |-> parseString(q.category_l3), l4 |-> parseString(q.category_l4)]
                     ELSE NoPath
  IN [applied |-> [start |-> parseDate(q.start), end |-> parseDate(q.end),
                   issuer_ruc |-> parseString(q.issuer_ruc),
                   k_threshold |-> parseKThreshold(q.k_threshold),
                   category_level |-> categoryLevel, category_domain |-> categoryDomain,
                   category_value |-> parseString(q.category_value),
                   product_path |-> productPath],
      derived |-> [cat_col |-> resolveCatCol(categoryDomain, categoryLevel),
                   group_by_level |-> groupByLevel(productPath, categoryLevel),
                   group_by_col |-> resolveCatCol(categoryDomain, groupByLevel(productPath, categoryLevel))],
      invalid |-> invalidReasons(q, options),
      isValid |-> invalidReasons(q, options) = <<>>]


\* ============================================================ SPRINT 3
\* /api/leakage/tree: the retention waterfall

\* base_txn: lines of the category in the window, by user, month, issuer
base_txn(L, start, end, category_value) ==
  LET F == {l \in L : InWindow(l, start, end) /\ COALESCE(l.cat, UNKNOWN) = category_value}
      G(u, m, i) == {l \in F : l.user = u /\ l.month = m /\ l.issuer = i}
  IN {[user_id |-> l.user, txn_month |-> l.month, issuer_ruc |-> l.issuer,
       line_total |-> SUM(G(l.user, l.month, l.issuer),
                          [g \in G(l.user, l.month, l.issuer) |-> g.amount]),
       visits |-> COUNT({g.cufe : g \in G(l.user, l.month, l.issuer)})] : l \in F}

\* months: SELECT DISTINCT txn_month FROM base_txn
months(B) == {b.txn_month : b \in B}

\* a pairing with the calendar-adjacent month only
month_pairsMutAdjacent(M) ==
  {[origin |-> m, next |-> IF m + 1 \in M THEN m + 1 ELSE NullNum] : m \in M}

\* month_pairs: origin and LEAD(txn_month) OVER (ORDER BY txn_month)
month_pairs(M) ==
  {[origin |-> m,
    next |-> IF \E n \in M : n > m
             THEN CHOOSE n \in M : n > m /\ \A o \in M : o > m => n <= o
             ELSE NullNum] : m \in M}

\* user_month: per user and month, visits and spend at issuer $4, all visits
user_month(B, issuer_ruc) ==
  LET G(u, m) == {b \in B : b.user_id = u /\ b.txn_month = m}
  IN {[user_id |-> r.user_id, txn_month |-> r.txn_month,
       visits_x |-> SUM(G(r.user_id, r.txn_month),
                        [b \in G(r.user_id, r.txn_month) |->
                           IF b.issuer_ruc = issuer_ruc THEN b.visits ELSE 0]),
       spend_x |-> SUM(G(r.user_id, r.txn_month),
                       [b \in G(r.user_id, r.txn_month) |->
                          IF b.issuer_ruc = issuer_ruc THEN b.line_total ELSE 0]),
       visits_total |-> SUM(G(r.user_id, r.txn_month),
                            [b \in G(r.user_id, r.txn_month) |-> b.visits])] : r \in B}

\* cohort: user-months with a visit at the issuer
cohort(UM) == {[user_id |-> um.user_id, origin |-> um.txn_month] : um \in {r \in UM : r.visits_x > 0}}

\* transitions: cohort JOIN month_pairs, LEFT JOIN user_month of origin and next
transitions(C, MP, UM) ==
  LET um(u, m) == {r \in UM : r.user_id = u /\ r.txn_month = m}
      col(rows, f) == IF rows = {} THEN 0 ELSE (CHOOSE r \in rows : TRUE)[f]
  IN {[user_id |-> c.user_id, origin |-> c.origin, next |-> mp.next,
       vx_o |-> col(um(c.user_id, c.origin), "visits_x"),
       sx_o |-> col(um(c.user_id, c.origin), "spend_x"),
       vx_n |-> col(um(c.user_id, mp.next), "visits_x"),
       sx_n |-> col(um(c.user_id, mp.next), "spend_x"),
       vt_n |-> col(um(c.user_id, mp.next), "visits_total")] :
      <<c, mp>> \in {p \in C \X MP : p[1].origin = p[2].origin /\ p[2].next # NullNum}}

\* the CASE of the buckets CTE (sx_o * 0.9 and sx_o * 0.5 cleared of decimals)
BucketMutFreqFirst(t) ==
  IF t.vx_n > 0 /\ t.vx_n < t.vx_o THEN "REDUCED_FREQ"
  ELSE IF t.vx_n > 0 /\ 10 * t.sx_n >= 9 * t.sx_o THEN "RETAINED"
  ELSE IF t.vt_n > 0 /\ t.vx_n = 0 THEN "CATEGORY_GONE"
  ELSE IF t.vx_n > 0 /\ 2 * t.sx_n < t.sx_o THEN "REDUCED_BASKET"
  ELSE IF t.vt_n = 0 THEN "FULL_CHURN"
  ELSE "DELAYED_ONLY"

\* the CASE without its FULL_CHURN branch
BucketMutNoChurn(t) ==
  IF t.vx_n > 0 /\ 10 * t.sx_n >= 9 * t.sx_o THEN "RETAINED"
  ELSE IF t.vt_n > 0 /\ t.vx_n = 0 THEN "CATEGORY_GONE"
  ELSE IF t.vx_n > 0 /\ 2 * t.sx_n < t.sx_o THEN "REDUCED_BASKET"
  ELSE IF t.vx_n > 0 /\ t.vx_n < t.vx_o THEN "REDUCED_FREQ"
  ELSE "DELAYED_ONLY"

Bucket(t) ==
  IF t.vx_n > 0 /\ 10 * t.sx_n >= 9 * t.sx_o THEN "RETAINED"
  ELSE IF t.vt_n > 0 /\ t.vx_n = 0 THEN "CATEGORY_GONE"
  ELSE IF t.vx_n > 0 /\ 2 * t.sx_n < t.sx_o THEN "REDUCED_BASKET"
  ELSE IF t.vx_n > 0 /\ t.vx_n < t.vx_o THEN "REDUCED_FREQ"
  ELSE IF t.vt_n = 0 THEN "FULL_CHURN"
  ELSE "DELAYED_ONLY"

\* buckets: one row per transition (user_id and origin keep the rows apart)
buckets(T) == {[user_id |-> t.user_id, origin |-> t.origin, bucket |-> Bucket(t)] : t \in T}

\* SELECT bucket, COUNT(*), ROUND(100.0 * COUNT(*) / NULLIF(SUM(COUNT(*)) OVER(), 0), 2)
\* FROM buckets GROUP BY bucket
leakageRows(BK) ==
  {[bucket |-> r.bucket,
    users |-> COUNT({q \in BK : q.bucket = r.bucket}),
    pct |-> RoundPct(COUNT({q \in BK : q.bucket = r.bucket}), COUNT(BK))] : r \in BK}

bucketOrder ==
  <<"RETAINED", "CATEGORY_GONE", "REDUCED_BASKET", "REDUCED_FREQ", "DELAYED_ONLY", "FULL_CHURN">>

\* bucketOrder.map(b => ({bucket: b, users: bucketMap[b]?.users || 0, pct: bucketMap[b]?.pct || 0}))
waterfallOf(rows) ==
  [i \in DOMAIN bucketOrder |->
     LET hit == {r \in rows : r.bucket = bucketOrder[i]}
     IN [bucket |-> bucketOrder[i],
         users |-> IF hit = {} THEN 0 ELSE (CHOOSE r \in hit : TRUE).users,
         pct |-> IF hit = {} THEN 0 ELSE Number((CHOOSE r \in hit : TRUE).pct)]]

\* requests <<start, end, category_value>>: two proper windows, an empty
\* one, one without a start date
LeakageRequests ==
  {<<1, 4, FOOD>>, <<1, 3, FOOD>>, <<2, 2, FOOD>>, <<NullNum, 3, FOOD>>}

\* GET /api/leakage/tree?start&end&issuer_ruc=X&category_value
LeakageTree(start, end, category_value) ==
  /\ resp = NoResp
  /\ LET filters == parseFilters(Request(start, end, X, Null, Null, category_value, NoPath),
                                 Options(TRUE, TRUE, TRUE, FALSE))
         applied == filters.applied
     IN IF ~filters.isValid
        THEN /\ resp' = [endpoint |-> "leakage/tree", status |-> 400, error |-> filters.invalid]
             /\ cte' = NoCte
        ELSE LET B == base_txn(ledger, applied.start, applied.end, applied.category_value)
                 UM == user_month(B, applied.issuer_ruc)
                 T == transitions(cohort(UM), month_pairs(months(B)), UM)
                 BK == buckets(T)
             IN /\ cte' = [query |-> "leakage/tree", transitions |-> T, buckets |-> BK]
                /\ resp' = [endpoint |-> "leakage/tree", status |-> 200,
                            start |-> applied.start, end |-> applied.end,
                            category_value |-> applied.category_value,
                            waterfall |-> waterfallOf(leakageRows(BK))]
  /\ UNCHANGED <<ledger, browser>>

\* ------------------------------------------------------- ingestion
\* lines of one category (and one line of another): user u1 with up to
\* two invoices a month at X and purchases elsewhere, user u2 beside it
LeakageLines ==
  {Line("u1", m, X, 1, FOOD, Null, a) : m \in {1, 2, 3}, a \in {40000, 95000, 100000}}
  \cup {Line("u1", m, X, 2, FOOD, Null, 40000) : m \in {1, 2, 3}}
  \cup {Line("u1", m, Y, 1, FOOD, Null, 30000) : m \in {2, 3}}
  \cup {Line("u1", 2, X, 1, DRINK, Null, 100000)}
  \cup {Line("u2", m, X, 1, FOOD, Null, 50000) : m \in {1, 2, 3}}
  \cup {Line("u2", m, Y, 1, FOOD, Null, 30000) : m \in {2, 3}}

\* a line is loaded into the store (the store belongs to the ETL, not to
\* this server); the previous response has been delivered
IngestLeakage ==
  /\ Cardinality(ledger) < MaxLines
  /\ \E l \in LeakageLines \ ledger : ledger' = ledger \cup {l}
  /\ resp' = NoResp
  /\ cte' = NoCte
  /\ UNCHANGED browser

\* ------------------------------------------------------------ the page
\* src/public/app.js before DOMContentLoaded. Dates are month numbers as in
\* the server ('2025-01-01' is month 1, '2025-07-01' the month after the
\* last month of the store); a text that is no date is 0.
START_DEFAULT == 1
END_DEFAULT == 3

Modules == {"overview", "capture", "switching", "leakage", "basket", "loyalty"}
CatLevels == {"l1", "l2", "l3", "l4"}

\* let abortController = null
NoController == [signal |-> "none"]

\* a select element: its first option (the placeholder, value ""), the
\* rows its other options were made from, the selected value
Select(placeholder, rows) ==
  [placeholder |-> placeholder, rows |-> rows, value |-> "", disabled |-> FALSE]

\* nothing rendered in the section of a module
NoData == [endpoint |-> "none"]

\* const globalFilters = {...}
globalFiltersDefault ==
  [start |-> START_DEFAULT, end |-> END_DEFAULT, issuer_ruc |-> Null, reconcile_ok |-> "all",
   k_threshold |-> k_threshold_default, peer_scope |-> "all", category_domain |-> "product",
   category_level |-> "l1", category_path |-> NoPath, category_value |-> Null, brand |-> Null]

\* the controls of the page as served (the markup is not part of the
\* sources: the selects start without options, 'overview' is the module
\* the Apply handler falls back to)
domDefault ==
  [location |-> [issuer_ruc |-> Null],
   filterIssuerRuc |-> Select("", {}), filterStart |-> START_DEFAULT, filterEnd |-> END_DEFAULT,
   filterCategoryDomain |-> "product",
   filterCat |-> [l \in CatLevels |-> Select("", {})],
   leakageCategorySelect |-> Select("", {}),
   loyaltyCategorySelect |-> Select("", {}),
   active |-> "overview",
   btnApplyFilters |-> [disabled |-> FALSE],
   loadingOverlay |-> [hidden |-> TRUE],
   module |-> [m \in Modules |-> NoData],
   toast |-> [type |-> "none", message |-> <<>>]]

PageNotLoaded ==
  /\ globalFilters = globalFiltersDefault
  /\ childrenCache = {}
  /\ abortController = NoController
  /\ dom = domDefault
  /\ pending = {}
  /\ started = <<>>

Init == ledger = {} /\ cte = NoCte /\ resp = NoResp /\ PageNotLoaded

\* ----------------------------------------------------- claims, waterfall
\* the rules of the waterfall as the specification lists them, in order
RuleOrder ==
  <<"RETAINED", "CATEGORY_GONE", "REDUCED_BASKET", "REDUCED_FREQ", "FULL_CHURN", "DELAYED_ONLY">>

RuleHolds(b, t) ==
  CASE b = "RETAINED" -> t.vx_n > 0 /\ 10 * t.sx_n >= 9 * t.sx_o
    [] b = "CATEGORY_GONE" -> t.vt_n > 0 /\ t.vx_n = 0
    [] b = "REDUCED_BASKET" -> t.vx_n > 0 /\ 2 * t.sx_n < t.sx_o
    [] b = "REDUCED_FREQ" -> t.vx_n > 0 /\ t.vx_n < t.vx_o
    [] b = "FULL_CHURN" -> t.vt_n = 0
    [] b = "DELAYED_ONLY" -> TRUE

FirstRule(t) ==
  RuleOrder[CHOOSE i \in DOMAIN RuleOrder :
              /\ RuleHolds(RuleOrder[i], t)
              /\ \A j \in 1..(i - 1) : ~RuleHolds(RuleOrder[j], t)]

WaterfallUsers(b) ==
  resp.waterfall[CHOOSE i \in DOMAIN resp.waterfall : resp.waterfall[i].bucket = b].users

LeakageOk == resp.endpoint = "leakage/tree" /\ resp.status = 200

\* C1: every transition is put in the bucket of the first rule, in the
\* order RETAINED, CATEGORY_GONE, REDUCED_BASKET, REDUCED_FREQ, FULL_CHURN,
\* DELAYED_ONLY, whose condition holds, and the response counts it there;
\* a transition meeting the RETAINED condition is RETAINED, never
\* REDUCED_BASKET.
C1_FirstMatchWins ==
  LeakageOk =>
    /\ \A t \in cte.transitions :
         /\ [user_id |-> t.user_id, origin |-> t.origin, bucket |-> FirstRule(t)] \in cte.buckets
         /\ RuleHolds("RETAINED", t) =>
              [user_id |-> t.user_id, origin |-> t.origin, bucket |-> "RETAINED"] \in cte.buckets
    /\ COUNT(cte.buckets) = COUNT(cte.transitions)
    /\ \A i \in DOMAIN RuleOrder :
         WaterfallUsers(RuleOrder[i]) =
           COUNT({t \in cte.transitions : FirstRule(t) = RuleOrder[i]})

\* C1 witness: a transition that meets the raw conditions of two rules
\* (RETAINED and REDUCED_FREQ) has been classified, and the specification's
\* example (origin spend 100, next spend 95, one visit) is RETAINED.
C1_Witness ==
  /\ LeakageOk
  /\ \E t \in cte.transitions :
       RuleHolds("RETAINED", t) /\ RuleHolds("REDUCED_FREQ", t)
  /\ \E t \in cte.transitions :
       /\ t.sx_o = 100000 /\ t.sx_n = 95000 /\ t.vx_n = 1
       /\ [user_id |-> t.user_id, origin |-> t.origin, bucket |-> "RETAINED"] \in cte.buckets

CohortSize(m) == COUNT({t \in cte.transitions : t.origin = m})

\* C2 (as claimed): for every origin month of the waterfall the six bucket
\* counts sum to that month's cohort_size and each pct is
\* 100 x users / cohort_size of that month.
C2_PerMonthPartition ==
  LeakageOk =>
    \A m \in {t.origin : t \in cte.transitions} :
      /\ SUM(DOMAIN resp.waterfall, [i \in DOMAIN resp.waterfall |-> resp.waterfall[i].users])
           = CohortSize(m)
      /\ \A i \in DOMAIN resp.waterfall :
           resp.waterfall[i].pct = RoundPct(resp.waterfall[i].users, CohortSize(m))

\* what the code does instead: one waterfall pooled over all origin months
PooledWaterfall ==
  LeakageOk =>
    /\ SUM(DOMAIN resp.waterfall, [i \in DOMAIN resp.waterfall |-> resp.waterfall[i].users])
         = COUNT(cte.transitions)
    /\ \A i \in DOMAIN resp.waterfall :
         resp.waterfall[i].pct =
           Number(RoundPct(resp.waterfall[i].users, COUNT(cte.transitions)))

\* the specification's scenario: A RETAINED and B CATEGORY_GONE from January
C2_Scenario ==
  /\ LeakageOk
  /\ COUNT(cte.transitions) = 2
  /\ WaterfallUsers("RETAINED") = 1
  /\ WaterfallUsers("CATEGORY_GONE") = 1

\* the series of the waterfall, read from the store: the months with a line
\* of the category in the window, whoever bought and wherever
SeriesLines ==
  {l \in ledger : InWindow(l, resp.start, resp.end)
                    /\ COALESCE(l.cat, UNKNOWN) = resp.category_value}

Series == {l.month : l \in SeriesLines}

VisitsInX(u, m) ==
  COUNT({l.cufe : l \in {r \in SeriesLines : r.user = u /\ r.month = m /\ r.issuer = X}})

HasLater(m) == \E n \in Series : n > m

NextInSeries(m) == CHOOSE n \in Series : n > m /\ \A o \in Series : o > m => n <= o

ExpectedTransitions ==
  {<<u, m, NextInSeries(m)>> : <<u, m>> \in
     {p \in {l.user : l \in SeriesLines} \X Series : HasLater(p[2]) /\ VisitsInX(p[1], p[2]) > 0}}

\* C12: the waterfall classifies exactly one transition (m, next(m)) for
\* each month m of the series that has a later month in the series and each
\* user with visits_in_x(m) > 0, next(m) being the earliest month of the
\* series after m, calendar-adjacent or not; a user without a visit at X in
\* m, and the last month of the series, give no transition.
C12_OneTransitionPerUserMonth ==
  LeakageOk =>
    /\ {<<t.user_id, t.origin, t.next>> : t \in cte.transitions} = ExpectedTransitions
    /\ COUNT(cte.transitions) = COUNT(ExpectedTransitions)
    /\ COUNT(cte.buckets) = COUNT(ExpectedTransitions)
    /\ SUM(DOMAIN resp.waterfall, [i \in DOMAIN resp.waterfall |-> resp.waterfall[i].users])
         = COUNT(ExpectedTransitions)

\* C12 witness: the series is months 1 and 3 (nobody bought in month 2);
\* the user with a visit at X in month 1 moves to month 3, the other user
\* has no visit at X in month 1, and month 3 starts no transition.
C12_Witness ==
  /\ LeakageOk
  /\ Series = {1, 3}
  /\ \E t \in cte.transitions : t.origin = 1 /\ t.next = 3
  /\ \E l \in SeriesLines : l.month = 3 /\ l.issuer = X
  /\ COUNT(cte.transitions) = 1
  /\ COUNT({l.user : l \in SeriesLines}) = 2

\* C13 (as claimed): the users of an origin month whose cohort_size is
\* below min_n (10 by default) are not counted in the waterfall: the bucket
\* counts add up to the transitions of the other months only.
C13_SmallMonthsExcluded ==
  LeakageOk =>
    SUM(DOMAIN resp.waterfall, [i \in DOMAIN resp.waterfall |-> resp.waterfall[i].users])
      = COUNT({t \in cte.transitions : CohortSize(t.origin) >= 10})

\* C17 (as claimed): no waterfall is returned for an empty window
\* (start >= end).
C17_EmptyWindowRejected ==
  LeakageOk => resp.start < resp.end

\* what the handler does with an empty window: a waterfall of six zeros
EmptyWindowGivesZeros ==
  (LeakageOk /\ resp.start >= resp.end) =>
    /\ cte.transitions = {}
    /\ \A i \in DOMAIN resp.waterfall : resp.waterfall[i].users = 0 /\ resp.waterfall[i].pct = 0

\* the transitions the buckets CTE has put in DELAYED_ONLY
DelayedOnly ==
  {t \in cte.transitions :
     [user_id |-> t.user_id, origin |-> t.origin, bucket |-> "DELAYED_ONLY"] \in cte.buckets}

\* C24: with visits_total >= visits_in_x >= 0 and spend >= 0, DELAYED_ONLY
\* is given exactly to the transitions with next.visits_in_x >=
\* origin.visits_in_x and 0.5 x origin.spend_in_x <= next.spend_in_x <
\* 0.9 x origin.spend_in_x; a transition with next.visits_total = 0 is
\* FULL_CHURN, never DELAYED_ONLY.
C24_DelayedOnlyExactly ==
  LeakageOk =>
    /\ \A t \in cte.transitions :
         /\ t.vt_n >= t.vx_n /\ t.vx_n >= 0 /\ t.sx_n >= 0 /\ t.sx_o >= 0
         /\ (t \in DelayedOnly) <=>
              (/\ t.vx_n >= t.vx_o
               /\ 2 * t.sx_n >= t.sx_o
               /\ 10 * t.sx_n < 9 * t.sx_o)
         /\ t.vt_n = 0 =>
              [user_id |-> t.user_id, origin |-> t.origin, bucket |-> "FULL_CHURN"] \in cte.buckets
    /\ WaterfallUsers("DELAYED_ONLY") = COUNT(DelayedOnly)

\* C24 witness: DELAYED_ONLY is reached (one visit of 100 USD, then two
\* visits of 40 USD each), beside a transition without any activity in the
\* next month
C24_Witness ==
  /\ LeakageOk
  /\ \E t \in DelayedOnly : t.vx_o = 1 /\ t.sx_o = 100000 /\ t.vx_n = 2 /\ t.sx_n = 80000
  /\ \E t \in cte.transitions : t.vt_n = 0
  /\ WaterfallUsers("DELAYED_ONLY") = 1
  /\ WaterfallUsers("FULL_CHURN") = 1

\* ============================================================ SPRINT 1
\* /api/sow_leakage/by_category: share of wallet and leakage by category
\* (peer_scope all, the default, and no category path: peerScopeWhere is
\* empty and every term of categoryPathFilter is true)

\* cohort: users with a line at the issuer in the window
captureCohort(L, start, end, issuer_ruc) ==
  {l.user : l \in {r \in L : InWindow(r, start, end) /\ r.issuer = issuer_ruc}}

\* peer_spend: spend of the cohort by user, category and issuer
peer_spend(L, start, end, C) ==
  LET F == {l \in L : InWindow(l, start, end) /\ l.user \in C}
      G(u, cv, i) == {l \in F : l.user = u /\ COALESCE(l.cat, UNKNOWN) = cv /\ l.issuer = i}
  IN {[user_id |-> l.user, category_value |-> COALESCE(l.cat, UNKNOWN), issuer_ruc |-> l.issuer,
       spend |-> SUM(G(l.user, COALESCE(l.cat, UNKNOWN), l.issuer),
                     [g \in G(l.user, COALESCE(l.cat, UNKNOWN), l.issuer) |-> g.amount])] : l \in F}

\* grouped: per category, distinct users, spend at the issuer, market spend
grouped(PS, issuer_ruc) ==
  LET G(cv) == {p \in PS : p.category_value = cv}
      inx(cv) == SUM(G(cv), [p \in G(cv) |-> IF p.issuer_ruc = issuer_ruc THEN p.spend ELSE 0])
      mkt(cv) == SUM(G(cv), [p \in G(cv) |-> p.spend])
  IN {[category_value |-> r.category_value,
       users |-> COUNT({p.user_id : p \in G(r.category_value)}),
       spend_in_x_usd |-> inx(r.category_value),
       spend_market_usd |-> mkt(r.category_value),
       leakage_usd |-> mkt(r.category_value) - inx(r.category_value),
       sow_pct |-> RoundPct(inx(r.category_value), mkt(r.category_value))] : r \in PS}

\* CASE WHEN users < $5 THEN 'OTHER_SUPPRESSED' ELSE category_value END
captureKeyMutInclusive(g, k) == IF g.users <= k THEN OTHER_SUPPRESSED ELSE g.category_value

captureKey(g, k) == IF g.users < k THEN OTHER_SUPPRESSED ELSE g.category_value

\* SUM(leakage_usd) of the merged rows
mergedLeakage(G) == SUM(G, [g \in G |-> g.leakage_usd])

\* ROUND(100.0 * SUM(spend_in_x_usd) / NULLIF(SUM(spend_market_usd), 0), 2)
mergedSowMutAvgOfPct(G) ==
  (2 * SUM(G, [g \in G |-> Number(g.sow_pct)]) + COUNT(G)) \div (2 * COUNT(G))

mergedSow(G) ==
  RoundPct(SUM(G, [g \in G |-> g.spend_in_x_usd]), SUM(G, [g \in G |-> g.spend_market_usd]))

\* the final SELECT: groups below k merged by summing (ORDER BY is not
\* modelled: the rows are a set)
captureMerged(GR, k) ==
  LET G(key) == {g \in GR : captureKey(g, k) = key}
  IN {[category_value |-> captureKey(r, k),
       users |-> SUM(G(captureKey(r, k)), [g \in G(captureKey(r, k)) |-> g.users]),
       spend_in_x_usd |-> SUM(G(captureKey(r, k)), [g \in G(captureKey(r, k)) |-> g.spend_in_x_usd]),
       spend_market_usd |-> SUM(G(captureKey(r, k)), [g \in G(captureKey(r, k)) |-> g.spend_market_usd]),
       leakage_usd |-> mergedLeakage(G(captureKey(r, k))),
       sow_pct |-> mergedSow(G(captureKey(r, k)))] : r \in GR}

\* rows.map(r => ({...})): money in cents, sow_pct in hundredths of a percent
captureRow(r) ==
  [category_value |-> r.category_value, users |-> Number(r.users),
   spend_in_x_usd |-> RoundCents(r.spend_in_x_usd),
   spend_market_usd |-> RoundCents(r.spend_market_usd),
   leakage_usd |-> RoundCents(r.leakage_usd),
   sow_pct |-> Number(r.sow_pct),
   is_unknown |-> (r.category_value = UNKNOWN),
   trust_level |-> IF r.category_value = UNKNOWN THEN "SUPPRESSED" ELSE Null]

\* GET /api/sow_leakage/by_category?start&end&issuer_ruc&k_threshold
SowLeakageByCategory(start, end, issuer_ruc, k_threshold) ==
  /\ resp = NoResp
  /\ IF parseString(issuer_ruc) = Null
     THEN /\ resp' = [endpoint |-> "sow_leakage/by_category", status |-> 400,
                      error |-> <<"issuer_ruc is required">>]
          /\ cte' = NoCte
     ELSE LET k == parseKThreshold(k_threshold)
              C == captureCohort(ledger, start, end, issuer_ruc)
              GR == grouped(peer_spend(ledger, start, end, C), issuer_ruc)
              M == captureMerged(GR, k)
          IN /\ cte' = [query |-> "sow_leakage/by_category", grouped |-> GR, merged |-> M]
             /\ resp' = [endpoint |-> "sow_leakage/by_category", status |-> 200,
                         k_threshold |-> k, data |-> {captureRow(r) : r \in M}]
  /\ UNCHANGED <<ledger, browser>>

\* ============================================================ SPRINT 5
\* /api/loyalty/brands: brand loyalty inside one category

B1 == "B1"
B2 == "B2"
NULLIF(v, w) == IF v = w THEN Null ELSE v

\* COALESCE(NULLIF(TRIM(b.product_brand), ''), 'UNKNOWN')
loyaltyBrand(l) == COALESCE(NULLIF(IF l.brand = Null THEN Null ELSE TRIM(l.brand), ""), UNKNOWN)

\* base: spend by user and brand at the issuer inside the category
loyaltyBase(L, start, end, issuer_ruc, category_value, brandOf) ==
  LET F == {l \in L : InWindow(l, start, end) /\ l.issuer = issuer_ruc
                      /\ COALESCE(l.cat, UNKNOWN) = category_value}
      G(u, b) == {l \in F : l.user = u /\ brandOf[l] = b}
  IN {[user_id |-> l.user, brand |-> brandOf[l],
       brand_spend |-> SUM(G(l.user, brandOf[l]), [g \in G(l.user, brandOf[l]) |-> g.amount])] : l \in F}

user_cat_spend(B) ==
  {[user_id |-> b.user_id,
    cat_spend |-> SUM({r \in B : r.user_id = b.user_id},
                      [r \in {q \in B : q.user_id = b.user_id} |-> r.brand_spend])] : b \in B}

\* shares: share of the user's category spend held by the brand
shares(B) ==
  LET U == user_cat_spend(B)
      cs(u) == (CHOOSE r \in U : r.user_id = u).cat_spend
  IN {[user_id |-> b.user_id, brand |-> b.brand,
       share_pct |-> RoundPct(b.brand_spend, cs(b.user_id))] : b \in {r \in B : r.brand_spend > 0}}

\* ascending share_pct values of a set of share rows
RECURSIVE SortShares(_)
SortShares(S) ==
  IF S = {} THEN <<>>
  ELSE LET m == CHOOSE x \in S : \A y \in S : x.share_pct <= y.share_pct
       IN <<m.share_pct>> \o SortShares(S \ {m})

\* ROUND(PERCENTILE_CONT(p) WITHIN GROUP (ORDER BY share_pct)::numeric, 2),
\* p in hundredths; NULL over no rows
PercentileCont(S, p) ==
  IF S = {} THEN NullNum
  ELSE LET v == SortShares(S)
           rn == p * (Len(v) - 1)
           lo == (rn \div 100) + 1
           hi == IF rn % 100 = 0 THEN lo ELSE lo + 1
       IN (2 * (100 * v[lo] + (rn % 100) * (v[hi] - v[lo])) + 100) \div 200

\* tiers of a share, in hundredths of a percent
IsLoyalMutOpen(sh) == sh.share_pct > 8000 /\ sh.share_pct < 9500

IsExclusive(sh) == sh.share_pct >= 9500
IsLoyal(sh) == sh.share_pct >= 8000 /\ sh.share_pct < 9500
IsPrefer(sh) == sh.share_pct >= 5000 /\ sh.share_pct < 8000
IsLight(sh) == sh.share_pct < 5000

brand_agg(SH, B) ==
  LET G(b) == {s \in SH : s.brand = b}
  IN {[brand |-> s.brand,
       brand_buyers |-> COUNT({r.user_id : r \in G(s.brand)}),
       penetration_pct |-> RoundPct(COUNT({r.user_id : r \in G(s.brand)}), COUNT(user_cat_spend(B))),
       p75 |-> PercentileCont(G(s.brand), 75),
       loyal_users |-> COUNT({r.user_id : r \in {q \in G(s.brand) : q.share_pct >= 8000}})] : s \in SH}

tiers(SH) ==
  [exclusive |-> COUNT({s \in SH : IsExclusive(s)}), loyal |-> COUNT({s \in SH : IsLoyal(s)}),
   prefer |-> COUNT({s \in SH : IsPrefer(s)}), light |-> COUNT({s \in SH : IsLight(s)})]

dist(SH) ==
  [p10 |-> PercentileCont(SH, 10), p25 |-> PercentileCont(SH, 25), p50 |-> PercentileCont(SH, 50),
   p75 |-> PercentileCont(SH, 75), p90 |-> PercentileCont(SH, 90)]

\* CASE WHEN brand_buyers < $6 AND brand != 'UNKNOWN' THEN 'OTHER_SUPPRESSED' ELSE brand END
loyaltyKey(a, k) == IF a.brand_buyers < k /\ a.brand # UNKNOWN THEN OTHER_SUPPRESSED ELSE a.brand

\* ROUND(AVG(v), 2) over a set of rows, v a function of the row
RoundAvg(S, f) == (2 * SUM(S, f) + COUNT(S)) \div (2 * COUNT(S))

\* brand_final and the final SELECT (ORDER BY is not modelled: rows are a set)
brand_final(BA, k) ==
  LET G(key) == {a \in BA : loyaltyKey(a, k) = key}
      buyers(key) == SUM(G(key), [a \in G(key) |-> a.brand_buyers])
      loyal(key) == SUM(G(key), [a \in G(key) |-> a.loyal_users])
  IN {[brand |-> loyaltyKey(r, k),
       brand_buyers |-> buyers(loyaltyKey(r, k)),
       penetration_pct |-> RoundAvg(G(loyaltyKey(r, k)), [a \in G(loyaltyKey(r, k)) |-> a.penetration_pct]),
       p75 |-> RoundAvg(G(loyaltyKey(r, k)), [a \in G(loyaltyKey(r, k)) |-> a.p75]),
       loyal_users |-> loyal(loyaltyKey(r, k)),
       loyalty_rate_pct |-> RoundPct(loyal(loyaltyKey(r, k)), buyers(loyaltyKey(r, k)))] : r \in BA}

loyaltyRow(r) ==
  [brand |-> r.brand, brand_buyers |-> Number(r.brand_buyers),
   penetration_pct |-> Number(r.penetration_pct), p75 |-> Number(r.p75),
   loyalty_rate_pct |-> Number(r.loyalty_rate_pct),
   is_unknown |-> (r.brand = UNKNOWN),
   trust_level |-> IF r.brand = UNKNOWN THEN "SUPPRESSED" ELSE Null]

ZeroTiers == [exclusive |-> 0, loyal |-> 0, prefer |-> 0, light |-> 0]
ZeroDist == [p10 |-> 0, p25 |-> 0, p50 |-> 0, p75 |-> 0, p90 |-> 0]

\* GET /api/loyalty/brands?start&end&issuer_ruc=X&category_value&k_threshold
LoyaltyBrands(start, end, category_value, k_threshold) ==
  /\ resp = NoResp
  /\ LET filters == parseFilters([Request(start, end, X, Null, Null, category_value, NoPath)
                                    EXCEPT !.k_threshold = k_threshold],
                                 Options(TRUE, TRUE, TRUE, FALSE))
         applied == filters.applied
     IN IF ~filters.isValid
        THEN /\ resp' = [endpoint |-> "loyalty/brands", status |-> 400, error |-> filters.invalid]
             /\ cte' = NoCte
        ELSE LET k == applied.k_threshold
                 B == loyaltyBase(ledger, applied.start, applied.end, applied.issuer_ruc,
                                  applied.category_value, [l \in ledger |-> loyaltyBrand(l)])
                 SH == shares(B)
                 BA == brand_agg(SH, B)
                 BF == brand_final(BA, k)
             IN /\ cte' = [query |-> "loyalty/brands", user_cat_spend |-> user_cat_spend(B),
                           shares |-> SH, brand_agg |-> BA, brand_final |-> BF]
                /\ resp' = [endpoint |-> "loyalty/brands", status |-> 200, k_threshold |-> k,
                            start |-> applied.start, end |-> applied.end,
                            category_value |-> applied.category_value,
                            tiers |-> IF BF = {} THEN ZeroTiers ELSE tiers(SH),
                            distribution |-> IF BF = {} THEN ZeroDist ELSE dist(SH),
                            data |-> {loyaltyRow(r) : r \in BF}]
  /\ UNCHANGED <<ledger, browser>>

\* ============================================================ DECK
\* /api/deck/commerce (format=json): the capture, leakage and loyalty
\* sections. The panel, panelTrend, switching and basket sections are
\* separate queries over the same rows and feed none of these three.

\* captureQuery: groups below k are dropped (HAVING), values not rounded
deckCapture(L, start, end, issuer_ruc, k) ==
  LET GR == grouped(peer_spend(L, start, end, captureCohort(L, start, end, issuer_ruc)), issuer_ruc)
  IN {[category_value |-> g.category_value, users |-> g.users,
       spend_in_x_usd |-> g.spend_in_x_usd, spend_market_usd |-> g.spend_market_usd,
       leakage_usd |-> g.leakage_usd, sow_pct |-> Number(g.sow_pct)] : g \in {r \in GR : r.users >= k}}

\* topCatQuery: spend at the issuer by category, UNKNOWN and OTHER_SUPPRESSED left out
topCatRows(L, start, end, issuer_ruc) ==
  LET F == {l \in L : InWindow(l, start, end) /\ l.issuer = issuer_ruc
                      /\ COALESCE(l.cat, UNKNOWN) \notin {UNKNOWN, OTHER_SUPPRESSED}}
  IN {[cat_val |-> l.cat,
       spend |-> SUM({g \in F : g.cat = l.cat}, [g \in {h \in F : h.cat = l.cat} |-> g.amount])] : l \in F}

\* ORDER BY spend DESC LIMIT 1: any row of maximal spend; null over no rows
topCategories(L, start, end, issuer_ruc) ==
  LET R == topCatRows(L, start, end, issuer_ruc)
  IN IF R = {} THEN {Null} ELSE {r.cat_val : r \in {q \in R : \A o \in R : o.spend <= q.spend}}

deckLeakage(L, start, end, issuer_ruc, topCategory) ==
  IF topCategory = Null
  THEN [waterfall |-> <<>>, category |-> Null, trust_level |-> Null]
  ELSE LET B == base_txn(L, start, end, topCategory)
           UM == user_month(B, issuer_ruc)
           BK == buckets(transitions(cohort(UM), month_pairs(months(B)), UM))
       IN [waterfall |-> waterfallOf(leakageRows(BK)), category |-> topCategory,
           trust_level |-> IF leakageRows(BK) # {} THEN "MEDIUM" ELSE "SUPPRESSED"]

\* eligibleUsers < 10 ? 'SUPPRESSED' : eligibleUsers < 30 ? 'LOW' : eligibleUsers < 100 ? 'MEDIUM' : 'HIGH'
deckTrustMutReversed(eligibleUsers) ==
  IF eligibleUsers > 10 THEN "SUPPRESSED"
  ELSE IF eligibleUsers < 30 THEN "LOW" ELSE IF eligibleUsers < 100 THEN "MEDIUM" ELSE "HIGH"

deckTrust(eligibleUsers) ==
  IF eligibleUsers < 10 THEN "SUPPRESSED"
  ELSE IF eligibleUsers < 30 THEN "LOW" ELSE IF eligibleUsers < 100 THEN "MEDIUM" ELSE "HIGH"

\* loyaltyQuery: brand is COALESCE(product_brand, 'UNKNOWN'); brands below k
\* are dropped unless UNKNOWN (LIMIT 10 is above the brands of the ledger)
deckLoyalty(L, start, end, issuer_ruc, topCategory, k) ==
  LET B == loyaltyBase(L, start, end, issuer_ruc, topCategory, [l \in L |-> COALESCE(l.brand, UNKNOWN)])
      SH == shares(B)
      rows == {a \in brand_agg(SH, B) : a.brand_buyers >= k \/ a.brand = UNKNOWN}
  IN IF topCategory = Null \/ rows = {}
     THEN [data |-> {}, tiers |-> Null, distribution |-> Null, category |-> topCategory,
           trust_level |-> Null]
     ELSE [data |-> {[brand |-> r.brand, brand_buyers |-> r.brand_buyers,
                      penetration_pct |-> Number(r.penetration_pct), p75 |-> Number(r.p75),
                      loyalty_rate_pct |-> Number(RoundPct(r.loyal_users, r.brand_buyers)),
                      trust_level |-> IF r.brand = UNKNOWN THEN "SUPPRESSED" ELSE Null] : r \in rows},
           tiers |-> tiers(SH), distribution |-> dist(SH), category |-> topCategory,
           eligible_users |-> COUNT(user_cat_spend(B)),
           trust_level |-> deckTrust(COUNT(user_cat_spend(B)))]

\* GET /api/deck/commerce?start&end&issuer_ruc&k_threshold&format=json
DeckCommerce(start, end, issuer_ruc, k_threshold) ==
  /\ resp = NoResp
  /\ cte' = NoCte
  /\ IF parseString(issuer_ruc) = Null
     THEN resp' = [endpoint |-> "deck/commerce", status |-> 400, error |-> <<"issuer_ruc is required">>]
     ELSE \E topCategory \in topCategories(ledger, start, end, issuer_ruc) :
            resp' = [endpoint |-> "deck/commerce", status |-> 200,
                     k_threshold |-> parseKThreshold(k_threshold),
                     auto_selected_category |-> topCategory,
                     capture |-> deckCapture(ledger, start, end, issuer_ruc, parseKThreshold(k_threshold)),
                     leakage |-> deckLeakage(ledger, start, end, issuer_ruc, topCategory),
                     loyalty |-> deckLoyalty(ledger, start, end, issuer_ruc, topCategory,
                                             parseKThreshold(k_threshold))]
  /\ UNCHANGED <<ledger, browser>>

\* ------------------------------------------------------------ the ledger
\* Invoices reach analytics.radiance_base_v1 from outside this server, one
\* batch of lines at a time.

Crowd == {"u3", "u4", "u5", "u6", "u7"}

MetricsBatches ==
  {{Line("u1", 1, X, 1, FOOD, B1, 4000)}, {Line("u1", 1, X, 2, FOOD, B1, 1254)},
   {Line("u1", 1, X, 1, FOOD, B2, 1000)}, {Line("u1", 1, X, 1, FOOD, Null, 1000)},
   {Line("u1", 1, X, 1, FOOD, BLANK, 1000)}, {Line("u1", 1, X, 1, DRINK, B1, 4)},
   {Line("u1", 1, X, 1, DRINK, B2, 0)}, {Line("u1", 1, X, 1, Null, B1, 4000)},
   {Line("u1", 1, Y, 1, FOOD, B1, 1254)}, {Line("u1", 1, Y, 1, DRINK, B1, 4)},
   {Line("u1", 2, X, 1, FOOD, B1, 4000)},
   {Line("u2", 1, X, 1, FOOD, B1, 4000)}, {Line("u2", 1, X, 1, FOOD, B2, 1000)},
   {Line("u2", 1, X, 1, DRINK, B1, 1254)}, {Line("u2", 1, Y, 1, FOOD, B1, 1254)},
   {Line("u2", 1, X, 1, Null, B1, 4000)},
   {Line(u, 1, X, 1, FOOD, B1, 4000) : u \in Crowd}}

MaxBatches == 3

IngestMetrics ==
  /\ Cardinality({b \in MetricsBatches : b \subseteq ledger}) < MaxBatches
  /\ \E b \in MetricsBatches :
       /\ ~(b \subseteq ledger)
       /\ ledger' = ledger \cup b
  /\ resp' = NoResp
  /\ cte' = NoCte
  /\ UNCHANGED browser

\* the waterfall over the ledger of the waterfall
NextLeakage ==
  \/ IngestLeakage
  \/ \E q \in LeakageRequests : LeakageTree(q[1], q[2], q[3])

SpecLeakage == Init /\ [][NextLeakage]_vars

\* the waterfall and the loyalty handler asked with and without a category
\* value (a category, an empty text, a blank text, no parameter), over a
\* store of the 40 and 30 USD lines
RequiredLines == {l \in LeakageLines : l.amount \in {40000, 30000}}

IngestRequired ==
  /\ Cardinality(ledger) < MaxLines
  /\ \E l \in RequiredLines \ ledger : ledger' = ledger \cup {l}
  /\ resp' = NoResp
  /\ cte' = NoCte
  /\ UNCHANGED browser

CategoryValues == {FOOD, "", BLANK, Null}

NextRequired ==
  \/ IngestRequired
  \/ \E cv \in CategoryValues : LeakageTree(1, 4, cv)
  \/ \E cv \in CategoryValues : LoyaltyBrands(1, 4, cv, NullNum)

SpecRequired == Init /\ [][NextRequired]_vars

\* C19: a waterfall or loyalty request whose category value is absent,
\* empty or blank is answered 400 with the reason "category_value is
\* required", and no query runs for it.
C19_CategoryValueRequired ==
  [][/\ \A cv \in {Null, "", BLANK} :
          LeakageTree(1, 4, cv) =>
            /\ resp'.status = 400
            /\ \E i \in DOMAIN resp'.error : resp'.error[i] = "category_value is required"
            /\ cte' = NoCte
     /\ \A cv \in {Null, "", BLANK} :
          LoyaltyBrands(1, 4, cv, NullNum) =>
            /\ resp'.status = 400
            /\ \E i \in DOMAIN resp'.error : resp'.error[i] = "category_value is required"
            /\ cte' = NoCte]_vars

\* C19 witness: the store holds lines of the category at the issuer, and
\* the waterfall request without a category value has been refused
C19_Witness ==
  /\ resp.endpoint = "leakage/tree"
  /\ resp.status = 400
  /\ resp.error = <<"category_value is required">>
  /\ cte = NoCte
  /\ \E l \in ledger : l.cat = FOOD /\ l.issuer = X

MetricsWindows == {<<1, 2>>, <<1, 3>>}
KThresholds == {NullNum, 0, 1, 2}

NextMetrics ==
  \/ IngestMetrics
  \/ \E w \in MetricsWindows, i \in {X, ""}, k \in KThresholds :
       SowLeakageByCategory(w[1], w[2], i, k)
  \/ \E w \in MetricsWindows, cv \in {FOOD, ""}, k \in KThresholds :
       LoyaltyBrands(w[1], w[2], cv, k)
  \/ \E w \in MetricsWindows, i \in {X, ""}, k \in KThresholds :
       DeckCommerce(w[1], w[2], i, k)

SpecMetrics == Init /\ [][NextMetrics]_vars

\* ------------------------------------------------------------ claims, k-anonymity

CaptureOk == resp.endpoint = "sow_leakage/by_category" /\ resp.status = 200
LoyaltyOk == resp.endpoint = "loyalty/brands" /\ resp.status = 200

CaptureRows(name) == {r \in resp.data : r.category_value = name}
LoyaltyRows(name) == {r \in resp.data : r.brand = name}

\* the groups of the query that no response row names
CaptureHidden == {g \in cte.grouped : CaptureRows(g.category_value) = {}}
LoyaltyHidden == {a \in cte.brand_agg : LoyaltyRows(a.brand) = {}}

\* C3: in the Capture and the Loyalty response a group other than UNKNOWN
\* is reported under its own name, with its own measures, if and only if
\* its distinct-user support is >= k; the groups that are not reported
\* under their own name put their measures into one OTHER_SUPPRESSED row
\* and nowhere else.
C3_KAnonymityMerge ==
  /\ CaptureOk =>
       /\ \A g \in cte.grouped : g.category_value # UNKNOWN =>
            /\ (CaptureRows(g.category_value) # {}) <=> (g.users >= resp.k_threshold)
            /\ \A r \in CaptureRows(g.category_value) :
                 /\ r.users = g.users
                 /\ r.spend_in_x_usd = RoundCents(g.spend_in_x_usd)
                 /\ r.spend_market_usd = RoundCents(g.spend_market_usd)
       /\ COUNT(CaptureRows(OTHER_SUPPRESSED)) = IF CaptureHidden = {} THEN 0 ELSE 1
       /\ \A r \in CaptureRows(OTHER_SUPPRESSED) :
            /\ r.users = SUM(CaptureHidden, [g \in CaptureHidden |-> g.users])
            /\ r.spend_in_x_usd = RoundCents(SUM(CaptureHidden, [g \in CaptureHidden |-> g.spend_in_x_usd]))
            /\ r.spend_market_usd = RoundCents(SUM(CaptureHidden, [g \in CaptureHidden |-> g.spend_market_usd]))
       /\ SUM(resp.data, [r \in resp.data |-> r.users]) = SUM(cte.grouped, [g \in cte.grouped |-> g.users])
  /\ LoyaltyOk =>
       /\ \A a \in cte.brand_agg : a.brand # UNKNOWN =>
            /\ (LoyaltyRows(a.brand) # {}) <=> (a.brand_buyers >= resp.k_threshold)
            /\ \A r \in LoyaltyRows(a.brand) : r.brand_buyers = a.brand_buyers
       /\ COUNT(LoyaltyRows(OTHER_SUPPRESSED)) = IF LoyaltyHidden = {} THEN 0 ELSE 1
       /\ \A r \in LoyaltyRows(OTHER_SUPPRESSED) :
            r.brand_buyers = SUM(LoyaltyHidden, [a \in LoyaltyHidden |-> a.brand_buyers])
       /\ SUM(resp.data, [r \in resp.data |-> r.brand_buyers])
            = SUM(cte.brand_agg, [a \in cte.brand_agg |-> a.brand_buyers])

\* k = 5: FOOD with 6 users keeps its name, DRINK with 1 user is merged
C3_Witness ==
  /\ CaptureOk
  /\ resp.k_threshold = 5
  /\ \E r \in CaptureRows(FOOD) : r.users = 6
  /\ \E g \in cte.grouped : g.category_value = DRINK /\ g.users = 1
  /\ CaptureRows(DRINK) = {}
  /\ \E r \in CaptureRows(OTHER_SUPPRESSED) : r.users = 1

\* C4 (as claimed): an UNKNOWN group with any support is never merged into
\* OTHER_SUPPRESSED: it has its own row, with its own support, and that
\* row carries trust_level SUPPRESSED.
C4_UnknownStandalone ==
  /\ CaptureOk =>
       \A g \in cte.grouped : g.category_value = UNKNOWN =>
         \E r \in resp.data :
           r.category_value = UNKNOWN /\ r.users = g.users /\ r.trust_level = "SUPPRESSED"
  /\ LoyaltyOk =>
       \A a \in cte.brand_agg : a.brand = UNKNOWN =>
         \E r \in resp.data :
           r.brand = UNKNOWN /\ r.brand_buyers = a.brand_buyers /\ r.trust_level = "SUPPRESSED"

\* what holds instead: Loyalty keeps UNKNOWN standalone; Capture keeps it
\* only while its support is >= k
UnknownStandaloneAboveK ==
  /\ CaptureOk =>
       \A g \in cte.grouped : (g.category_value = UNKNOWN /\ g.users >= resp.k_threshold) =>
         \E r \in resp.data :
           r.category_value = UNKNOWN /\ r.users = g.users /\ r.trust_level = "SUPPRESSED"
  /\ LoyaltyOk =>
       \A a \in cte.brand_agg : a.brand = UNKNOWN =>
         \E r \in resp.data :
           r.brand = UNKNOWN /\ r.brand_buyers = a.brand_buyers /\ r.trust_level = "SUPPRESSED"

\* ------------------------------------------------------------ claims, capture arithmetic

\* C5 (as claimed): in every Capture row, before the merge, after it and
\* in the response, leakage_usd = spend_market_usd - spend_in_x_usd
\* exactly, and the merged row holds the sums of the merged groups.
C5_LeakageIdentity ==
  CaptureOk =>
    /\ \A g \in cte.grouped : g.leakage_usd = g.spend_market_usd - g.spend_in_x_usd
    /\ \A m \in cte.merged :
         /\ m.leakage_usd = m.spend_market_usd - m.spend_in_x_usd
         /\ m.category_value = OTHER_SUPPRESSED =>
              /\ m.spend_in_x_usd = SUM(CaptureHidden, [g \in CaptureHidden |-> g.spend_in_x_usd])
              /\ m.spend_market_usd = SUM(CaptureHidden, [g \in CaptureHidden |-> g.spend_market_usd])
              /\ m.leakage_usd = SUM(CaptureHidden, [g \in CaptureHidden |-> g.leakage_usd])
    /\ \A r \in resp.data : r.leakage_usd = r.spend_market_usd - r.spend_in_x_usd

\* what holds instead: the identity on the rows of the query
LeakageIdentityInQuery ==
  CaptureOk =>
    /\ \A g \in cte.grouped : g.leakage_usd = g.spend_market_usd - g.spend_in_x_usd
    /\ \A m \in cte.merged : m.leakage_usd = m.spend_market_usd - m.spend_in_x_usd

\* the groups behind a response row
CaptureGroupsOf(r) ==
  IF r.category_value = OTHER_SUPPRESSED THEN CaptureHidden
  ELSE {g \in cte.grouped : g.category_value = r.category_value}

C6_MergeScenario ==
  /\ CaptureOk
  /\ \E r \in CaptureRows(OTHER_SUPPRESSED) :
       /\ COUNT(CaptureHidden) = 2
       /\ \E g \in CaptureHidden : g.sow_pct = 10000
       /\ r.sow_pct > 0 /\ r.sow_pct < 10000

DeckOk == resp.endpoint = "deck/commerce" /\ resp.status = 200

\* C8 (as claimed): a SUPPRESSED window verdict comes with no per-brand rows.
C8_NoRowsWhenSuppressed ==
  DeckOk => (resp.loyalty.trust_level = "SUPPRESSED" => resp.loyalty.data = {})

\* the share rows behind a Loyalty response row
LoyaltySharesOf(r) ==
  IF r.brand = OTHER_SUPPRESSED THEN {s \in cte.shares : \E a \in LoyaltyHidden : a.brand = s.brand}
  ELSE {s \in cte.shares : s.brand = r.brand}

\* C10: for every brand row of the Loyalty response, the buyers of the
\* brand in the EXCLUSIVE, LOYAL, PREFER and LIGHT tiers add up to the
\* row's brand_buyers; the tier counts of the response add up to the
\* brand_buyers of all rows.
C10_TiersPartitionBuyers ==
  LoyaltyOk =>
    /\ \A r \in resp.data :
         COUNT({s \in LoyaltySharesOf(r) : IsExclusive(s)}) + COUNT({s \in LoyaltySharesOf(r) : IsLoyal(s)})
           + COUNT({s \in LoyaltySharesOf(r) : IsPrefer(s)}) + COUNT({s \in LoyaltySharesOf(r) : IsLight(s)})
           = r.brand_buyers
    /\ resp.tiers.exclusive + resp.tiers.loyal + resp.tiers.prefer + resp.tiers.light
         = SUM(resp.data, [r \in resp.data |-> r.brand_buyers])

\* B1 with two buyers in different tiers, one of them at a share of exactly 80
C10_Witness ==
  /\ LoyaltyOk
  /\ \E r \in LoyaltyRows(B1) : r.brand_buyers = 2
  /\ \E s \in cte.shares : s.brand = B1 /\ s.share_pct = 8000
  /\ \E s \in cte.shares : s.brand = B1 /\ IsExclusive(s)

\* eligible_users of the loyalty query: (SELECT COUNT(*) FROM user_cat_spend)
EligibleUsers == COUNT(cte.user_cat_spend)

\* C22 (as claimed): every row of the Loyalty response, the
\* OTHER_SUPPRESSED row included, has penetration_pct = 100 x brand_buyers
\* / eligible_users for the brand_buyers of that row.
C22_PenetrationOfReportedBuyers ==
  LoyaltyOk =>
    \A r \in resp.data : r.penetration_pct = Number(RoundPct(r.brand_buyers, EligibleUsers))

\* what holds: the identity holds for the rows of a single brand; the
\* OTHER_SUPPRESSED row reports the sum of the buyers of the merged brands
\* with the average of their penetrations
PenetrationOfSingleBrands ==
  LoyaltyOk =>
    \A r \in resp.data :
      LET merged == IF r.brand = OTHER_SUPPRESSED THEN LoyaltyHidden
                    ELSE {a \in cte.brand_agg : a.brand = r.brand}
      IN /\ COUNT(merged) = 1 =>
              r.penetration_pct = Number(RoundPct(r.brand_buyers, EligibleUsers))
         /\ r.brand_buyers = SUM(merged, [a \in merged |-> a.brand_buyers])
         /\ r.penetration_pct = RoundAvg(merged, [a \in merged |-> a.penetration_pct])

\* ============================================================ TRUST
\* The trust verdicts as functions of their inputs: the loyalty verdict
\* of the deck and calculateTrustLevel of the dashboard modules.

\* Number(v) || d
OrDefault(v, d) == IF v = NullNum \/ v = 0 THEN d ELSE v

calculateTrustLevel(uniqueUsers, coveragePct, reconcileOkPct) ==
  LET users == OrDefault(uniqueUsers, 0)
      coverage == OrDefault(coveragePct, 0)
      reconcile == OrDefault(reconcileOkPct, 100)
  IN IF users >= 10 /\ coverage >= 80 /\ reconcile >= 90 THEN "HIGH"
     ELSE IF users >= 5 /\ coverage >= 60 THEN "MEDIUM"
     ELSE "LOW"

MaxEligible == 101
Coverages == {NullNum, 59, 60, 79, 80}
Reconciles == {NullNum, 0, 89, 90}
Growths == {1, 4, 20, 70}

TrustInput(u, c, r) == [query |-> "trust", eligible_users |-> u, coverage |-> c, reconcile |-> r]

TrustVerdicts(in, prev) ==
  [endpoint |-> "trust", eligible_users |-> in.eligible_users,
   deck |-> deckTrust(in.eligible_users),
   badge |-> calculateTrustLevel(in.eligible_users, in.coverage, in.reconcile),
   prev_users |-> IF prev = NoResp THEN NullNum ELSE prev.eligible_users,
   prev_deck |-> IF prev = NoResp THEN Null ELSE prev.deck,
   prev_badge |-> IF prev = NoResp THEN Null ELSE prev.badge]

InitTrust ==
  /\ ledger = {}
  /\ resp = NoResp
  /\ \E u \in 0..MaxEligible, c \in Coverages, r \in Reconciles : cte = TrustInput(u, c, r)
  /\ PageNotLoaded

\* the verdicts of the window
Assess ==
  /\ resp = NoResp
  /\ resp' = TrustVerdicts(cte, NoResp)
  /\ UNCHANGED <<ledger, cte, browser>>

\* the verdicts of the same window with more eligible users
Reassess(d) ==
  /\ resp # NoResp
  /\ cte.eligible_users + d <= MaxEligible
  /\ cte' = [cte EXCEPT !.eligible_users = @ + d]
  /\ resp' = TrustVerdicts(cte', resp)
  /\ UNCHANGED <<ledger, browser>>

NextTrust == Assess \/ \E d \in Growths : Reassess(d)

SpecTrust == InitTrust /\ [][NextTrust]_vars

\* ------------------------------------------------------------ claims, trust

TrustOk == resp.endpoint = "trust"

\* the verdict as the claim states it, min_n 10 and coverage threshold 60
ClaimedVerdict(eligible_users, known_coverage_pct) ==
  IF eligible_users < 10 \/ OrDefault(known_coverage_pct, 0) < 60 THEN "SUPPRESSED"
  ELSE IF eligible_users < 30 THEN "LOW"
  ELSE IF eligible_users < 100 THEN "MEDIUM"
  ELSE "HIGH"

\* C7 (as claimed): the window verdict is SUPPRESSED if eligible_users < 10
\* or coverage < 60, otherwise LOW below 30 users, MEDIUM below 100, HIGH
\* from 100 on.
C7_TrustVerdict ==
  TrustOk =>
    /\ resp.deck = ClaimedVerdict(resp.eligible_users, cte.coverage)
    /\ resp.badge = ClaimedVerdict(resp.eligible_users, cte.coverage)

\* what the deck does: the claimed ladder on eligible_users alone
DeckVerdictIgnoresCoverage ==
  TrustOk => resp.deck = ClaimedVerdict(resp.eligible_users, 100)

TrustRank(t) == CASE t = "SUPPRESSED" -> 0 [] t = "LOW" -> 1 [] t = "MEDIUM" -> 2 [] t = "HIGH" -> 3

\* C9: with coverage and reconciliation fixed, more eligible users never
\* move a verdict to a lower tier of SUPPRESSED < LOW < MEDIUM < HIGH.
C9_TrustMonotonic ==
  (TrustOk /\ resp.prev_users # NullNum) =>
    /\ resp.prev_users < resp.eligible_users
    /\ TrustRank(resp.prev_deck) <= TrustRank(resp.deck)
    /\ TrustRank(resp.prev_badge) <= TrustRank(resp.badge)

\* a window grown across a threshold: verdicts rise
C9_Witness ==
  /\ TrustOk
  /\ resp.prev_users = 9 /\ resp.eligible_users = 10
  /\ resp.prev_deck = "SUPPRESSED" /\ resp.deck = "LOW"
  /\ resp.prev_badge = "MEDIUM" /\ resp.badge = "HIGH"

\* ============================================================ FILTER CONTRACT
\* parseFilters as a function of the request, and the handler that lists
\* the children of a category. Rows carry the eight category columns here.

\* rows with the category columns of both domains (month 1, issuer X or Y)
WideLine(u, i, a, prod, comm) ==
  [user |-> u, month |-> 1, issuer |-> i, amount |-> a,
   category_l1 |-> prod[1], category_l2 |-> prod[2], category_l3 |-> prod[3], category_l4 |-> prod[4],
   commerce_l1 |-> comm[1], commerce_l2 |-> comm[2], commerce_l3 |-> comm[3], commerce_l4 |-> comm[4]]

WideLines ==
  {WideLine("u1", X, 4000, <<FOOD, "DAIRY", "MILK", "WHOLE">>, <<"GROCERY", "FRESH", Null, Null>>),
   WideLine("u2", X, 2000, <<FOOD, "DAIRY", "CHEESE", Null>>, <<"GROCERY", Null, Null, Null>>),
   WideLine("u2", Y, 1000, <<FOOD, "BAKERY", Null, Null>>, <<Null, Null, Null, Null>>)}

\* the answer of the handler over the rows L, and the statement it ran
categoriesChildrenAnswer(L, q, level_, domain_) ==
  LET filters == parseFilters(q, Options(FALSE, TRUE, FALSE, TRUE))
      level == toLowerCase(IF level_ = Null \/ level_ = "" THEN "l2" ELSE level_)
      domain == toLowerCase(IF domain_ = Null \/ domain_ = "" THEN "product" ELSE domain_)
      targetCol == resolveCatCol(domain, level)
      pathCols == IF domain \in DOMAIN CAT_COLS THEN CAT_COLS[domain] ELSE CAT_COLS.product
      path == filters.applied.product_path
      F == {l \in L :
              /\ l.month >= filters.applied.start /\ l.month < filters.applied.end
              /\ l[targetCol] # Null /\ l[targetCol] # UNKNOWN
              /\ (path.l1 # Null => l[pathCols.l1] = path.l1)
              /\ (path.l2 # Null => l[pathCols.l2] = path.l2)
              /\ (path.l3 # Null => l[pathCols.l3] = path.l3)
              /\ (filters.applied.issuer_ruc # Null => l.issuer = filters.applied.issuer_ruc)}
  IN IF ~filters.isValid
     THEN [resp |-> [endpoint |-> "categories/children", status |-> 400, error |-> filters.invalid],
           cte |-> [query |-> "none", req |-> q, level |-> level_, domain |-> domain_]]
     ELSE IF level \notin VALID_LEVELS
     THEN [resp |-> [endpoint |-> "categories/children", status |-> 400, error |-> <<"Invalid level">>],
           cte |-> [query |-> "none", req |-> q, level |-> level_, domain |-> domain_]]
     ELSE [cte |-> [query |-> "categories/children", req |-> q, level |-> level_,
                    domain |-> domain_, targetCol |-> targetCol],
           resp |-> [endpoint |-> "categories/children", status |-> 200,
                     level |-> level, domain |-> domain, parent_path |-> path,
                     data |-> {[category_value |-> l[targetCol],
                                users |-> COUNT({g.user : g \in {h \in F : h[targetCol] = l[targetCol]}}),
                                spend |-> SUM({h \in F : h[targetCol] = l[targetCol]},
                                              [h \in {g \in F : g[targetCol] = l[targetCol]} |-> h.amount]),
                                is_unknown |-> (l[targetCol] = UNKNOWN)] : l \in F}]]

\* GET /api/categories/children?start&end&issuer_ruc&level&domain&category_l1..l3
CategoriesChildren(q, level_, domain_) ==
  /\ resp = NoResp
  /\ resp' = categoriesChildrenAnswer(ledger, q, level_, domain_).resp
  /\ cte' = categoriesChildrenAnswer(ledger, q, level_, domain_).cte
  /\ UNCHANGED <<ledger, browser>>

\* a handler parses its request: the filter contract it works with
ParseFilters(q, options) ==
  /\ resp = NoResp
  /\ cte' = [query |-> "none", req |-> q, options |-> options]
  /\ resp' = [endpoint |-> "parseFilters", filters |-> parseFilters(q, options)]
  /\ UNCHANGED <<ledger, browser>>

InitFilters == ledger = WideLines /\ cte = NoCte /\ resp = NoResp /\ PageNotLoaded

Levels == {Null, "l1", "l3", "L2", "l9"}
Domains == {Null, "Commerce", "issuer"}
Paths == [{"l1", "l2", "l3", "l4"} -> {Null, "A"}]
FilterWindows == {<<1, 3>>, <<NullNum, 3>>, <<1, 0>>}

NextFilters ==
  \/ \E lv \in Levels, d \in Domains, pa \in Paths, w \in FilterWindows, sp \in BOOLEAN :
       ParseFilters(Request(w[1], w[2], X, lv, d, Null, pa), Options(TRUE, TRUE, FALSE, sp))
  \/ \E lv \in Levels, d \in Domains, l1 \in {Null, FOOD}, l2 \in {Null, "DAIRY"},
        i \in {Null, X}, w \in FilterWindows :
       CategoriesChildren(Request(w[1], w[2], i, Null, Null, Null,
                                  [l1 |-> l1, l2 |-> l2, l3 |-> Null, l4 |-> Null]), lv, d)

SpecFilters == InitFilters /\ [][NextFilters]_vars

\* ------------------------------------------------------------ claims, filter contract

ParsedOk == resp.endpoint = "parseFilters"

PathSet(i) == resp.filters.applied.product_path[<<"l1", "l2", "l3", "l4">>[i]] # Null
LevelName(i) == <<"l1", "l2", "l3", "l4">>[i]

\* the number of the deepest path entry supplied, 0 when none is
Deepest == IF \E i \in 1..4 : PathSet(i) THEN CHOOSE i \in 1..4 : PathSet(i) /\ \A j \in (i+1)..4 : ~PathSet(j)
           ELSE 0

\* the path is l1..lj for some j: no entry is set below a missing one
IsPrefixPath == \A i \in 1..4 : PathSet(i) => \A j \in 1..i : PathSet(j)

\* C11 (as claimed): for every combination of path entries the grouping
\* level is one level deeper than the deepest entry supplied (nothing is
\* required when that entry is l4, the last level), and the requested
\* level when no entry is supplied.
C11_DeeperThanDeepest ==
  ParsedOk =>
    /\ Deepest = 0 => resp.filters.derived.group_by_level = resp.filters.applied.category_level
    /\ Deepest \in 1..3 => resp.filters.derived.group_by_level = LevelName(Deepest + 1)

\* C11 (amended): when the supplied entries are a prefix l1..lj of the
\* path, the grouping level is one level deeper than lj, and l4 when lj is
\* l4; with no entry it is the requested level; when entries are missing
\* inside the path, it is the level of the first missing entry that
\* follows a supplied one.
C11_GroupingLevel ==
  ParsedOk =>
    LET gaps == {i \in 1..3 : PathSet(i) /\ ~PathSet(i + 1)}
        first == CHOOSE i \in gaps : \A j \in gaps : i <= j
    IN /\ IsPrefixPath =>
            resp.filters.derived.group_by_level =
              IF Deepest = 0 THEN resp.filters.applied.category_level
              ELSE IF Deepest = 4 THEN "l4" ELSE LevelName(Deepest + 1)
       /\ ~IsPrefixPath =>
            resp.filters.derived.group_by_level = IF gaps = {} THEN "l4" ELSE LevelName(first + 1)
       /\ resp.filters.derived.group_by_col =
            resolveCatCol(resp.filters.applied.category_domain, resp.filters.derived.group_by_level)

\* the path fixes l1 and l2, the request asks for l1: grouping is by l3
C11_Witness ==
  /\ ParsedOk
  /\ PathSet(1) /\ PathSet(2) /\ ~PathSet(3) /\ ~PathSet(4)
  /\ cte.req.category_level = "l1"
  /\ resp.filters.derived.group_by_level = "l3"
  /\ resp.filters.derived.group_by_col = "category_l3"

\* C18 (as claimed): a request that names a domain outside product and
\* commerce, or a level outside l1..l4, is rejected; it is never resolved
\* to a default column.
C18_InvalidDimensionRejected ==
  /\ ParsedOk =>
       (((cte.req.category_level # Null /\ toLowerCase(cte.req.category_level) \notin VALID_LEVELS)
         \/ (cte.req.category_domain # Null /\ toLowerCase(cte.req.category_domain) \notin VALID_DOMAINS))
          => ~resp.filters.isValid)
  /\ resp.endpoint = "categories/children" =>
       (((cte.level # Null /\ toLowerCase(cte.level) \notin VALID_LEVELS)
         \/ (cte.domain # Null /\ toLowerCase(cte.domain) \notin VALID_DOMAINS))
          => resp.status = 400)

\* what holds instead: only the level of /api/categories/children is checked
ChildrenLevelRejected ==
  resp.endpoint = "categories/children" =>
    ((cte.level # Null /\ toLowerCase(cte.level) \notin VALID_LEVELS) => resp.status = 400)

ChildrenOk == resp.endpoint = "categories/children" /\ resp.status = 200

\* the lines under the requested parent path, window and issuer, whatever
\* their value at the requested level
ChildrenQualifying ==
  LET pathCols == IF resp.domain \in DOMAIN CAT_COLS THEN CAT_COLS[resp.domain]
                  ELSE CAT_COLS.product
      path == resp.parent_path
      issuer_ruc == parseString(cte.req.issuer_ruc)
  IN {l \in ledger :
        /\ InWindow(l, parseDate(cte.req.start), parseDate(cte.req.end))
        /\ (path.l1 # Null => l[pathCols.l1] = path.l1)
        /\ (path.l2 # Null => l[pathCols.l2] = path.l2)
        /\ (path.l3 # Null => l[pathCols.l3] = path.l3)
        /\ (issuer_ruc # Null => l.issuer = issuer_ruc)}

\* C23 (as claimed): no line is removed because its value at the requested
\* level is missing: when qualifying lines without a value exist under the
\* parent path and window, the children list has a tuple with is_unknown =
\* true for them.
C23_UnknownNeverDropped ==
  ChildrenOk =>
    ((\E l \in ChildrenQualifying : COALESCE(l[cte.targetCol], UNKNOWN) = UNKNOWN)
       => \E r \in resp.data : r.is_unknown /\ r.category_value = UNKNOWN)

\* what holds: the children list never has an UNKNOWN tuple, and its users
\* and spend are those of the lines that have a value
ChildrenListOnlyKnownValues ==
  ChildrenOk =>
    /\ \A r \in resp.data : ~r.is_unknown /\ r.category_value # UNKNOWN
    /\ {r.category_value : r \in resp.data} =
         {l[cte.targetCol] : l \in {h \in ChildrenQualifying : h[cte.targetCol] # Null}}

\* ============================================= THE STORE AND ITS FILTERS
\* The handlers that read the store through the reconciliation view: basket
\* breadth (v2.2 and v2.1), switching destinations (v2.1 and v2.2) and the
\* share of wallet of the dashboard. A line carries the reconcile_ok of its
\* invoice ("true", or Null when the view has no row for the cufe); a
\* request carries reconcile_ok as parseBool leaves it ("true", "false" or
\* Null). A query may fail in the store: each handler that reaches
\* pool.query has a failing outcome.

TRUE_ == "true"
FALSE_ == "false"

\* parseBool(val, null)
parseBool(val) ==
  IF val \in {Null, ""} THEN Null
  ELSE IF val \in {"true", "1"} THEN TRUE_
  ELSE IF val \in {"false", "0"} THEN FALSE_
  ELSE Null

\* a row of radiance_base_v1 LEFT JOIN radiance_invoice_reconcile_v1: the
\* invoice (cufe) is reconciled when its number c is 1, and has no row in
\* the view otherwise
StoreLine(u, m, i, c, cat, b, a) ==
  [user |-> u, month |-> m, issuer |-> i, cufe |-> <<u, m, i, c>>, cat |-> cat,
   brand |-> b, amount |-> a, reconcile_ok |-> IF c = 1 THEN TRUE_ ELSE Null]

\* ($3::boolean IS NULL OR COALESCE(r.reconcile_ok, false) = $3)
reconcileFilter(l, reconcile_ok) ==
  reconcile_ok = Null \/ COALESCE(l.reconcile_ok, FALSE_) = reconcile_ok

\* the answer of the error middleware
InternalServerError(endpoint) ==
  [endpoint |-> endpoint, status |-> 500, error |-> "Internal server error"]

FailedCte(query) == [query |-> query, failed |-> TRUE]

\* ------------------------------------------------ /api/basket/breadth
basketBaseTxn(L, start, end, reconcile_ok) ==
  {[user_id |-> l.user, txn_month |-> l.month, issuer_ruc |-> l.issuer,
    cat_val |-> COALESCE(l.cat, UNKNOWN)] :
     l \in {r \in L : InWindow(r, start, end) /\ reconcileFilter(r, reconcile_ok)}}

\* cohort: SELECT DISTINCT user_id, txn_month FROM base_txn WHERE issuer_ruc = $4
basketCohort(B, issuer_ruc) ==
  {[user_id |-> b.user_id, txn_month |-> b.txn_month] : b \in {r \in B : r.issuer_ruc = issuer_ruc}}

\* breadth_in_x counted over the lines at the other issuers
user_breadthMutElsewhere(C, B, issuer_ruc) ==
  LET bt(c) == {b \in B : b.user_id = c.user_id /\ b.txn_month = c.txn_month}
  IN {[user_id |-> c.user_id, txn_month |-> c.txn_month,
       breadth_total |-> COUNT({b.cat_val : b \in bt(c)}),
       breadth_in_x |-> COUNT({b.cat_val : b \in {r \in bt(c) : r.issuer_ruc # issuer_ruc}})] :
      c \in C}

user_breadth(C, B, issuer_ruc) ==
  LET bt(c) == {b \in B : b.user_id = c.user_id /\ b.txn_month = c.txn_month}
  IN {[user_id |-> c.user_id, txn_month |-> c.txn_month,
       breadth_total |-> COUNT({b.cat_val : b \in bt(c)}),
       breadth_in_x |-> COUNT({b.cat_val : b \in {r \in bt(c) : r.issuer_ruc = issuer_ruc}})] :
      c \in C}

\* monthly: users and ROUND(AVG(breadth), 2), in hundredths
monthly(UB) ==
  LET G(m) == {u \in UB : u.txn_month = m}
  IN {[origin_month |-> m,
       users |-> COUNT({u.user_id : u \in G(m)}),
       avg_breadth_market |-> RoundAvg(G(m), [u \in G(m) |-> 100 * u.breadth_total]),
       avg_breadth_in_x |-> RoundAvg(G(m), [u \in G(m) |-> 100 * u.breadth_in_x])] :
      m \in {u.txn_month : u \in UB}}

\* the final SELECT: CASE WHEN users < $5 THEN true ELSE false END AS is_suppressed
basketFinal(M, k_threshold) ==
  {[origin_month |-> r.origin_month, users |-> r.users,
    avg_breadth_market |-> r.avg_breadth_market, avg_breadth_in_x |-> r.avg_breadth_in_x,
    is_suppressed |-> r.users < k_threshold] : r \in M}

\* rows.map(r => ({origin_month, users, avg_breadth_market, avg_breadth_in_x}))
basketData(rows) ==
  {[origin_month |-> r.origin_month, users |-> Number(r.users),
    avg_breadth_market |-> Number(r.avg_breadth_market),
    avg_breadth_in_x |-> Number(r.avg_breadth_in_x)] : r \in rows}

basketRows(L, start, end, reconcile_ok, issuer_ruc, k_threshold) ==
  LET B == basketBaseTxn(L, start, end, reconcile_ok)
  IN basketFinal(monthly(user_breadth(basketCohort(B, issuer_ruc), B, issuer_ruc)), k_threshold)

BasketBreadth(start, end, reconcile_ok_, k_threshold_, fails) ==
  /\ resp = NoResp
  /\ LET filters == parseFilters([Request(start, end, X, Null, Null, Null, NoPath)
                                    EXCEPT !.k_threshold = k_threshold_],
                                 Options(TRUE, TRUE, FALSE, TRUE))
         applied == filters.applied
         reconcile_ok == parseBool(reconcile_ok_)
     IN IF ~filters.isValid
        THEN /\ resp' = [endpoint |-> "basket/breadth", status |-> 400, error |-> filters.invalid]
             /\ cte' = NoCte
        ELSE IF fails
        THEN /\ resp' = InternalServerError("basket/breadth")
             /\ cte' = FailedCte("basket/breadth")
        ELSE LET rows == basketRows(ledger, applied.start, applied.end, reconcile_ok,
                                    applied.issuer_ruc, applied.k_threshold)
             IN /\ cte' = [query |-> "basket/breadth", failed |-> FALSE, rows |-> rows]
                /\ resp' = [endpoint |-> "basket/breadth", status |-> 200,
                            start |-> applied.start, end |-> applied.end,
                            reconcile_ok |-> reconcile_ok, k_threshold |-> applied.k_threshold,
                            data |-> basketData(rows)]
  /\ UNCHANGED <<ledger, browser>>

\* v2.1: ... GROUP BY txn_month HAVING COUNT(DISTINCT user_id) >= $5
basketRowsV21(L, start, end, reconcile_ok, issuer_ruc, k_threshold) ==
  LET B == basketBaseTxn(L, start, end, reconcile_ok)
  IN {r \in monthly(user_breadth(basketCohort(B, issuer_ruc), B, issuer_ruc)) :
        r.users >= k_threshold}

startEndIssuerErrors(start, end, issuer_ruc) ==
  (IF parseDate(start) = NullNum THEN <<"Invalid or missing start date">> ELSE <<>>)
  \o (IF parseDate(end) = NullNum THEN <<"Invalid or missing end date">> ELSE <<>>)
  \o (IF parseString(issuer_ruc) = Null THEN <<"issuer_ruc is required">> ELSE <<>>)

BasketBreadthV21(start, end, reconcile_ok_, k_threshold_, fails) ==
  /\ resp = NoResp
  /\ LET errors == startEndIssuerErrors(start, end, X)
         reconcileOk == parseBool(reconcile_ok_)
         kThreshold == parseKThreshold(k_threshold_)
     IN IF errors # <<>>
        THEN /\ resp' = [endpoint |-> "basket/breadth v2.1", status |-> 400, error |-> errors]
             /\ cte' = NoCte
        ELSE IF fails
        THEN /\ resp' = InternalServerError("basket/breadth v2.1")
             /\ cte' = FailedCte("basket/breadth v2.1")
        ELSE LET rows == basketRowsV21(ledger, parseDate(start), parseDate(end), reconcileOk,
                                       X, kThreshold)
             IN /\ cte' = [query |-> "basket/breadth v2.1", failed |-> FALSE, rows |-> rows]
                /\ resp' = [endpoint |-> "basket/breadth v2.1", status |-> 200,
                            start |-> parseDate(start), end |-> parseDate(end),
                            reconcile_ok |-> reconcileOk, k_threshold |-> kThreshold,
                            data |-> basketData(rows)]
  /\ UNCHANGED <<ledger, browser>>

\* ------------------------------------------- /api/switching/destinations
\* cohort: SELECT DISTINCT user_id ... WHERE invoice_date >= $1 AND
\* invoice_date < $2 AND issuer_ruc = $4 (no join with the reconcile view)
switchingCohort(L, start, end, issuer_ruc) ==
  {l.user : l \in {r \in L : InWindow(r, start, end) /\ r.issuer = issuer_ruc}}

\* elsewhere: the lines of the cohort at other issuers; the store of the
\* model has no issuer_name, COALESCE(b.issuer_name, b.issuer_ruc) is the ruc
elsewhere(L, C, start, end, reconcile_ok, issuer_ruc) ==
  {[user_id |-> l.user, destination |-> COALESCE(Null, l.issuer)] :
     l \in {r \in L : /\ r.user \in C
                      /\ InWindow(r, start, end)
                      /\ reconcileFilter(r, reconcile_ok)
                      /\ r.issuer # issuer_ruc}}

\* GROUP BY destination HAVING COUNT(DISTINCT user_id) >= $5
switchingRows(E, C, k_threshold) ==
  LET U(d) == {e.user_id : e \in {r \in E : r.destination = d}}
  IN {[destination |-> d, users |-> COUNT(U(d)), pct |-> RoundPct(COUNT(U(d)), COUNT(C))] :
      d \in {x \in {e.destination : e \in E} : COUNT(U(x)) >= k_threshold}}

\* ORDER BY users DESC: every order of the rows with users descending (rows
\* with equal users come in an order the store chooses)
RECURSIVE switchingOrderedMutAscending(_)
switchingOrderedMutAscending(rows) ==
  IF rows = {} THEN {<<>>}
  ELSE LET last == {r \in rows : \A q \in rows : q.users >= r.users}
       IN UNION {{<<t>> \o s : s \in switchingOrderedMutAscending(rows \ {t})} : t \in last}

RECURSIVE switchingOrdered(_)
switchingOrdered(rows) ==
  IF rows = {} THEN {<<>>}
  ELSE LET first == {r \in rows : \A q \in rows : q.users <= r.users}
       IN UNION {{<<t>> \o s : s \in switchingOrdered(rows \ {t})} : t \in first}

\* LIMIT 15
SWITCHING_LIMIT == 15

switchingLimit(s) == IF Len(s) <= SWITCHING_LIMIT THEN s ELSE SubSeq(s, 1, SWITCHING_LIMIT)

\* rows.map(r => ({ destination, users: Number(r.users), pct: Number(r.pct) }))
switchingData(rows) ==
  [i \in DOMAIN rows |->
     [destination |-> rows[i].destination, users |-> Number(rows[i].users),
      pct |-> Number(rows[i].pct)]]

SwitchingDestinationsV21(start, end, reconcile_ok_, k_threshold_, fails) ==
  /\ resp = NoResp
  /\ LET errors == startEndIssuerErrors(start, end, X)
         reconcileOk == parseBool(reconcile_ok_)
         kThreshold == parseKThreshold(k_threshold_)
     IN IF errors # <<>>
        THEN /\ resp' = [endpoint |-> "switching/destinations v2.1", status |-> 400,
                         error |-> errors]
             /\ cte' = NoCte
        ELSE IF fails
        THEN /\ resp' = InternalServerError("switching/destinations v2.1")
             /\ cte' = FailedCte("switching/destinations v2.1")
        ELSE LET C == switchingCohort(ledger, parseDate(start), parseDate(end), X)
                 E == elsewhere(ledger, C, parseDate(start), parseDate(end), reconcileOk, X)
             IN \E rows \in switchingOrdered(switchingRows(E, C, kThreshold)) :
                  /\ cte' = [query |-> "switching/destinations v2.1", failed |-> FALSE,
                             cohort |-> C]
                  /\ resp' = [endpoint |-> "switching/destinations v2.1", status |-> 200,
                              start |-> parseDate(start), end |-> parseDate(end),
                              reconcile_ok |-> reconcileOk, k_threshold |-> kThreshold,
                              data |-> switchingData(switchingLimit(rows))]
  /\ UNCHANGED <<ledger, browser>>

\* v2.2: the statement sent to the store is not SQL (a second WITH member
\* after the SELECT list, and "..." in two SELECT lists): the store rejects
\* it whatever the data, pool.query rejects, asyncHandler passes the error on
SwitchingDestinations(start, end) ==
  /\ resp = NoResp
  /\ LET filters == parseFilters(Request(start, end, X, Null, Null, Null, NoPath),
                                 Options(TRUE, TRUE, FALSE, TRUE))
     IN IF ~filters.isValid
        THEN /\ resp' = [endpoint |-> "switching/destinations", status |-> 400,
                         error |-> filters.invalid]
             /\ cte' = NoCte
        ELSE /\ resp' = InternalServerError("switching/destinations")
             /\ cte' = FailedCte("switching/destinations")
  /\ UNCHANGED <<ledger, browser>>

\* ------------------------------------------------------------ /api/sow
\* parseParam
parseParam(val) == IF val \in {Null, "", "null", "undefined", "all"} THEN Null ELSE TRIM(val)

\* '2020-01-01' and '2099-12-31' on the month scale of the model, where
\* month 1 is January 2024
SOW_START == 0 - 47
SOW_END == 912

\* line_data: b.invoice_date BETWEEN $1::date AND $2::date, the optional
\* issuer and category, r.reconcile_ok = $6, line_total > 0 (no store_id)
sowLineData(L, start, end, issuerRuc, category, reconcileOk) ==
  {[user_id |-> l.user, cufe |-> l.cufe, category |-> COALESCE(l.cat, UNKNOWN),
    brand |-> COALESCE(l.brand, UNKNOWN), line_total |-> l.amount] :
     l \in {r \in L : /\ r.month >= start /\ r.month <= end
                      /\ (issuerRuc = Null \/ r.issuer = issuerRuc)
                      /\ (category = Null \/ (r.cat # Null /\ r.cat = category))
                      /\ (reconcileOk = Null
                            \/ (r.reconcile_ok # Null /\ r.reconcile_ok = reconcileOk))
                      /\ r.amount > 0}}

sowBrandAgg(LD) ==
  LET G(c, b) == {l \in LD : l.category = c /\ l.brand = b}
  IN {[category |-> l.category, brand |-> l.brand,
       brand_sales |-> SUM(G(l.category, l.brand), [g \in G(l.category, l.brand) |-> g.line_total]),
       unique_users |-> COUNT({g.user_id : g \in G(l.category, l.brand)}),
       receipt_count |-> COUNT({g.cufe : g \in G(l.category, l.brand)}),
       line_count |-> COUNT(G(l.category, l.brand))] :
      l \in {r \in LD : r.category # UNKNOWN}}

sowCategoryTotals(BA) ==
  LET G(c) == {a \in BA : a.category = c}
  IN {[category |-> a.category,
       category_total |-> SUM(G(a.category), [g \in G(a.category) |-> g.brand_sales]),
       category_users |-> SUM(G(a.category), [g \in G(a.category) |-> g.unique_users])] :
      a \in BA}

\* the final SELECT (spend_per_buyer in cents) and the trust_level added
\* to each row
sowRows(BA, CT) ==
  {[category |-> p[1].category, brand |-> p[1].brand, brand_sales |-> p[1].brand_sales,
    unique_users |-> p[1].unique_users, receipt_count |-> p[1].receipt_count,
    line_count |-> p[1].line_count, category_total |-> p[2].category_total,
    category_users |-> p[2].category_users,
    sow_pct |-> RoundPct(p[1].brand_sales, p[2].category_total),
    penetration_pct |-> RoundPct(p[1].unique_users, p[2].category_users),
    spend_per_buyer |-> (2 * p[1].brand_sales + 10 * p[1].unique_users)
                          \div (20 * p[1].unique_users),
    trust_level |-> calculateTrustLevel(p[1].unique_users, 80, 95)] :
     p \in {q \in BA \X CT : q[1].category = q[2].category}}

sowEnriched(L, start, end, issuerRuc, category, reconcileOk) ==
  LET BA == sowBrandAgg(sowLineData(L, start, end, issuerRuc, category, reconcileOk))
  IN sowRows(BA, sowCategoryTotals(BA))

\* the handler answers [] from its catch when the query fails
Sow(start_, end_, category_, reconcile_ok_, fails) ==
  /\ resp = NoResp
  /\ LET start == IF start_ = NullNum THEN SOW_START ELSE start_
         end == IF end_ = NullNum THEN SOW_END ELSE end_
         issuerRuc == parseParam(X)
         category == parseParam(category_)
         reconcileOk == parseBool(reconcile_ok_)
     IN /\ cte' = [query |-> "sow", failed |-> fails, start |-> start, end |-> end,
                   issuerRuc |-> issuerRuc, category |-> category, reconcileOk |-> reconcileOk]
        /\ resp' = [endpoint |-> "sow", status |-> 200,
                    data |-> IF fails THEN {}
                             ELSE sowEnriched(ledger, start, end, issuerRuc, category, reconcileOk)]
  /\ UNCHANGED <<ledger, browser>>

\* ------------------------------------------------------- the store
MaxStoreLines == 3

\* two users at X in months 1 and 3, reconciled or not; a second category
\* at X, month 2 at X, and purchases at Y
StoreLines ==
  {StoreLine(u, m, X, c, FOOD, B1, 40000) : u \in {"u1", "u2"}, m \in {1, 3}, c \in {1, 2}}
  \cup {StoreLine("u1", 1, X, 1, DRINK, B2, 20000), StoreLine("u1", 2, X, 1, FOOD, Null, 40000),
        StoreLine("u1", 1, Y, 1, FOOD, B2, 30000), StoreLine("u2", 2, Y, 1, DRINK, B1, 30000),
        StoreLine("u1", 1, Y, 2, DRINK, B1, 30000)}

IngestStore ==
  /\ Cardinality(ledger) < MaxStoreLines
  /\ \E l \in StoreLines \ ledger : ledger' = ledger \cup {l}
  /\ resp' = NoResp
  /\ cte' = NoCte
  /\ UNCHANGED browser

InitStore == ledger = {} /\ cte = NoCte /\ resp = NoResp /\ PageNotLoaded

StoreWindows == {<<1, 3>>, <<NullNum, 3>>}
ReconcileValues == {Null, "true"}
StoreKThresholds == {NullNum, 1}

NextStore ==
  \/ IngestStore
  \/ \E w \in StoreWindows, r \in ReconcileValues, k \in StoreKThresholds, f \in BOOLEAN :
       BasketBreadth(w[1], w[2], r, k, f)
  \/ \E w \in StoreWindows, r \in ReconcileValues, k \in StoreKThresholds, f \in BOOLEAN :
       BasketBreadthV21(w[1], w[2], r, k, f)
  \/ \E w \in StoreWindows, r \in ReconcileValues, k \in StoreKThresholds, f \in BOOLEAN :
       SwitchingDestinationsV21(w[1], w[2], r, k, f)
  \/ \E w \in StoreWindows : SwitchingDestinations(w[1], w[2])
  \/ \E w \in StoreWindows, c \in {Null, FOOD}, r \in ReconcileValues, f \in BOOLEAN :
       Sow(w[1], w[2], c, r, f)

SpecStore == InitStore /\ [][NextStore]_vars


\* ------------------------------------------------ claims, the store
BasketOk == resp.endpoint \in {"basket/breadth", "basket/breadth v2.1"} /\ resp.status = 200

SwitchingOk == resp.endpoint = "switching/destinations v2.1" /\ resp.status = 200

SowOk == resp.endpoint = "sow" /\ resp.status = 200 /\ ~cte.failed

\* the lines of the store inside the half-open window [start, end)
WindowLines(start, end) == {l \in ledger : InWindow(l, start, end)}

\* the months in which some user has a qualifying line at X
CohortMonths ==
  {l.month : l \in {r \in WindowLines(resp.start, resp.end) :
                      reconcileFilter(r, resp.reconcile_ok) /\ r.issuer = X}}

CohortUsers(m) ==
  {l.user : l \in {r \in WindowLines(resp.start, resp.end) :
                     reconcileFilter(r, resp.reconcile_ok) /\ r.issuer = X /\ r.month = m}}

\* C14 (as claimed): basket breadth returns a row for every month with at
\* least one cohort user, and every row carries is_suppressed, true exactly
\* when its users are below k; no low-support month is dropped.
C14_LowSupportFlagged ==
  BasketOk =>
    /\ \A m \in CohortMonths : \E r \in resp.data : r.origin_month = m
    /\ \A r \in resp.data :
         /\ "is_suppressed" \in DOMAIN r
         /\ r.is_suppressed = (r.users < resp.k_threshold)

\* what v2.2 does: the query keeps and flags every month, the response
\* keeps every month and its users, without the flag
BasketKeepsEveryMonth ==
  (BasketOk /\ resp.endpoint = "basket/breadth") =>
    /\ {r.origin_month : r \in resp.data} = CohortMonths
    /\ \A r \in cte.rows : r.is_suppressed = (r.users < resp.k_threshold)
    /\ \A r \in resp.data : r.users = COUNT(CohortUsers(r.origin_month))
    /\ \A r \in resp.data : "is_suppressed" \notin DOMAIN r

\* what v2.1 does: only the months with at least k users are returned
BasketV21DropsLowSupport ==
  (BasketOk /\ resp.endpoint = "basket/breadth v2.1") =>
    {r.origin_month : r \in resp.data} =
      {m \in CohortMonths : COUNT(CohortUsers(m)) >= resp.k_threshold}

\* the cohort of Capture for the filters of the response: the cohort CTE of
\* /api/sow_leakage/by_category over the lines that pass the reconciliation
\* filter
CaptureCohortFor(start, end, reconcile_ok) ==
  captureCohort({l \in ledger : reconcileFilter(l, reconcile_ok)}, start, end, X)

\* the user-months of the basket query for the filters of the response
BasketUserMonths ==
  LET B == basketBaseTxn(ledger, resp.start, resp.end, resp.reconcile_ok)
  IN user_breadth(basketCohort(B, X), B, X)

\* C30: for every cohort user-month counted by basket breadth,
\* 1 <= breadth_in_x <= breadth_total; hence in every reported month
\* avg_breadth_in_x <= avg_breadth_market and both averages are at least 1
\* (100 hundredths).
C30_BreadthBounds ==
  BasketOk =>
    /\ \A u \in BasketUserMonths : 1 <= u.breadth_in_x /\ u.breadth_in_x <= u.breadth_total
    /\ \A r \in resp.data :
         /\ \E u \in BasketUserMonths : u.txn_month = r.origin_month
         /\ 100 <= r.avg_breadth_in_x
         /\ r.avg_breadth_in_x <= r.avg_breadth_market

\* C30 witness: a month with two cohort users, one of whom bought a second
\* category elsewhere: the market average (1.5) is above the average at X (1)
C30_Witness ==
  /\ BasketOk
  /\ \E r \in resp.data :
       r.users = 2 /\ r.avg_breadth_in_x = 100 /\ r.avg_breadth_market = 150

\* C15 (as claimed): the cohort of Switching is the cohort of Capture for
\* the same window, issuer and reconciliation filter: the users with a line
\* at X in the window that passes the reconciliation filter.
C15_SwitchingCohortIsCaptureCohort ==
  SwitchingOk =>
    cte.cohort = CaptureCohortFor(resp.start, resp.end, resp.reconcile_ok)

\* what holds: the cohort of Switching is the cohort of Capture without a
\* reconciliation filter, whatever the request asks
SwitchingCohortIgnoresReconcile ==
  SwitchingOk => cte.cohort = CaptureCohortFor(resp.start, resp.end, Null)

\* the v2.2 handler never answers with destinations
SwitchingV22NeverAnswers ==
  resp.endpoint = "switching/destinations" => resp.status \in {400, 500}

\* C16 (as claimed): every aggregation counts exactly the lines with
\* start <= invoice_date < end: each answer is the one computed over the
\* lines of [start, end) alone, a line dated on the end bound changes none.
C16_EndExclusive ==
  /\ (BasketOk /\ resp.endpoint = "basket/breadth") =>
       resp.data = basketData(basketRows(WindowLines(resp.start, resp.end), resp.start, resp.end,
                                         resp.reconcile_ok, X, resp.k_threshold))
  /\ SwitchingOk =>
       LET L == WindowLines(resp.start, resp.end)
           C == switchingCohort(L, resp.start, resp.end, X)
       IN \E rows \in switchingOrdered(switchingRows(
                          elsewhere(L, C, resp.start, resp.end, resp.reconcile_ok, X),
                          C, resp.k_threshold)) :
            resp.data = switchingData(switchingLimit(rows))
  /\ SowOk =>
       resp.data = sowEnriched(WindowLines(cte.start, cte.end), cte.start, cte.end,
                               cte.issuerRuc, cte.category, cte.reconcileOk)

\* what holds: the handlers of server.js are end-exclusive and
\* start-inclusive; the share of wallet of the dashboard counts the lines
\* of start <= invoice_date <= end
ServerWindowsEndExclusive ==
  /\ (BasketOk /\ resp.endpoint = "basket/breadth") =>
       resp.data = basketData(basketRows(WindowLines(resp.start, resp.end), resp.start, resp.end,
                                         resp.reconcile_ok, X, resp.k_threshold))
  /\ (BasketOk /\ resp.endpoint = "basket/breadth") =>
       \A m \in {l.month : l \in {r \in ledger : r.issuer = X
                                       /\ reconcileFilter(r, resp.reconcile_ok)}} :
         (\E r \in resp.data : r.origin_month = m) <=> (resp.start <= m /\ m < resp.end)
  /\ SwitchingOk =>
       LET L == WindowLines(resp.start, resp.end)
           C == switchingCohort(L, resp.start, resp.end, X)
       IN \E rows \in switchingOrdered(switchingRows(
                          elsewhere(L, C, resp.start, resp.end, resp.reconcile_ok, X),
                          C, resp.k_threshold)) :
            resp.data = switchingData(switchingLimit(rows))
  /\ SowOk =>
       resp.data = sowEnriched({l \in ledger : cte.start <= l.month /\ l.month <= cte.end},
                               cte.start, cte.end, cte.issuerRuc, cte.category, cte.reconcileOk)

\* C20 (as claimed): when the query of a request fails in the store, the
\* caller receives an error response, never a success.
C20_FailureIsAnError ==
  (cte.query # "none" /\ cte.failed) => resp.status >= 500

\* what holds: a failure is a 500 for the handlers of server.js, and a
\* success with an empty list for the share of wallet of the dashboard,
\* the same answer as for a store without lines
ServerFailureIs500 ==
  (cte.query # "none" /\ cte.failed) =>
    IF cte.query = "sow"
    THEN resp.status = 200 /\ resp.data = {}
    ELSE resp = InternalServerError(resp.endpoint)

\* ============================================================ PEER SCOPE
\* /api/sow_leakage/by_category with its peer_scope parameter

Z == "Z"
W == "W"
SUPER == "SUPER"
PHARMA == "PHARMA"

VALID_PEER_SCOPES == {"all", "peers", "extended"}

\* parseFilters, peer scope: the value when it is one of the three, else
\* FILTER_DEFAULTS.peer_scope
parsePeerScope(v) == IF v \in VALID_PEER_SCOPES THEN v ELSE "all"

\* public.dim_issuer: the retailer category issuer_l1 of an issuer; W has
\* no row, the LEFT JOIN gives it NULL
dim_issuer(i) ==
  CASE i = X -> SUPER
    [] i = Y -> SUPER
    [] i = Z -> PHARMA
    [] OTHER -> Null

\* ${peerScopeWhere}: empty unless peer_scope is peers; a comparison with
\* NULL is not true
peerScopeWhereMutPeersOnly(l, peer_scope, issuer_ruc) ==
  peer_scope = "peers" =>
    (dim_issuer(l.issuer) # Null /\ dim_issuer(issuer_ruc) # Null
       /\ dim_issuer(l.issuer) = dim_issuer(issuer_ruc))

peerScopeWhere(l, peer_scope, issuer_ruc) ==
  peer_scope = "peers" =>
    \/ l.issuer = issuer_ruc
    \/ (dim_issuer(l.issuer) # Null /\ dim_issuer(issuer_ruc) # Null
          /\ dim_issuer(l.issuer) = dim_issuer(issuer_ruc))

\* GET /api/sow_leakage/by_category?start&end&issuer_ruc&k_threshold&peer_scope
SowLeakageByCategoryScoped(start, end, issuer_ruc, k_threshold, peer_scope) ==
  /\ resp = NoResp
  /\ IF parseString(issuer_ruc) = Null
     THEN /\ resp' = [endpoint |-> "sow_leakage/by_category", status |-> 400,
                      error |-> <<"issuer_ruc is required">>]
          /\ cte' = NoCte
     ELSE LET k == parseKThreshold(k_threshold)
              ps == parsePeerScope(peer_scope)
              C == captureCohort(ledger, start, end, issuer_ruc)
              PS == peer_spend({l \in ledger : peerScopeWhere(l, ps, issuer_ruc)}, start, end, C)
              GR == grouped(PS, issuer_ruc)
              M == captureMerged(GR, k)
          IN /\ cte' = [query |-> "sow_leakage/by_category", cohort |-> C, peer_spend |-> PS,
                        grouped |-> GR, merged |-> M]
             /\ resp' = [endpoint |-> "sow_leakage/by_category", status |-> 200,
                         start |-> start, end |-> end, issuer_ruc |-> issuer_ruc,
                         k_threshold |-> k, peer_scope |-> ps,
                         data |-> {captureRow(r) : r \in M}]
  /\ UNCHANGED <<ledger, browser>>

\* the store of the peer scope: purchases of two users at four issuers
PeerLines ==
  {Line("u1", 1, X, 1, FOOD, B1, 4000), Line("u1", 1, Y, 1, FOOD, B1, 1254),
   Line("u1", 1, Z, 1, FOOD, B1, 3000), Line("u1", 1, W, 1, FOOD, B1, 2000),
   Line("u1", 1, Z, 1, DRINK, B1, 1000), Line("u1", 1, X, 1, DRINK, B1, 0),
   Line("u1", 2, X, 1, Null, B1, 4),
   Line("u2", 1, X, 1, FOOD, B1, 1000), Line("u2", 1, W, 1, DRINK, B1, 4000),
   Line("u2", 2, Y, 1, Null, B1, 1254)}

IngestPeers ==
  /\ Cardinality(ledger) < MaxLines
  /\ \E l \in PeerLines \ ledger : ledger' = ledger \cup {l}
  /\ resp' = NoResp
  /\ cte' = NoCte
  /\ UNCHANGED browser

PeerScopes == {Null, "all", "peers", "extended", "rivals"}

NextPeers ==
  \/ IngestPeers
  \/ \E i \in {X, W, ""}, k \in {NullNum, 1}, ps \in PeerScopes :
       SowLeakageByCategoryScoped(1, 3, i, k, ps)

SpecPeers == Init /\ [][NextPeers]_vars

\* C28: every capture row, before and after the merge and in the answer,
\* under every peer scope, has 0 <= spend_in_x_usd <= spend_market_usd,
\* leakage_usd >= 0 and 0 <= sow_pct <= 100; spend_in_x_usd of a category
\* is the whole spend of the cohort at the issuer in that category, so the
\* lines at the issuer are always part of the market
C28_CaptureBounds ==
  (CaptureOk /\ cte.query = "sow_leakage/by_category") =>
    LET atX(cv) == {l \in ledger : /\ InWindow(l, resp.start, resp.end)
                                   /\ l.issuer = resp.issuer_ruc
                                   /\ COALESCE(l.cat, UNKNOWN) = cv}
        inX(cv) == SUM(atX(cv), [l \in atX(cv) |-> l.amount])
        bounded(r, hundred) ==
          /\ 0 <= r.spend_in_x_usd /\ r.spend_in_x_usd <= r.spend_market_usd
          /\ r.leakage_usd >= 0
          /\ 0 <= Number(r.sow_pct) /\ Number(r.sow_pct) <= hundred
    IN /\ \A g \in cte.grouped :
            /\ bounded(g, 10000)
            /\ g.spend_in_x_usd = inX(g.category_value)
            /\ g.leakage_usd = g.spend_market_usd - g.spend_in_x_usd
       /\ \A cv \in {COALESCE(l.cat, UNKNOWN) : l \in ledger} :
            atX(cv) # {} => \E g \in cte.grouped : g.category_value = cv
       /\ \A m \in cte.merged : bounded(m, 10000)
       /\ SUM(cte.merged, [m \in cte.merged |-> m.spend_in_x_usd])
            = SUM(cte.grouped, [g \in cte.grouped |-> g.spend_in_x_usd])
       /\ \A r \in resp.data : bounded(r, 10000)

\* C28 witness: under peer scope peers the market of the issuer leaves out
\* the spend at an issuer of another retailer category and keeps the spend
\* at the issuer and at its peer
C28_Witness ==
  /\ CaptureOk /\ cte.query = "sow_leakage/by_category"
  /\ resp.peer_scope = "peers" /\ resp.issuer_ruc = X
  /\ Line("u1", 1, Z, 1, FOOD, B1, 3000) \in ledger
  /\ \E g \in cte.grouped :
       /\ g.category_value = FOOD
       /\ g.spend_in_x_usd = 4000
       /\ g.spend_market_usd = 5254

\* ============================================================ SWITCHING ROWS
\* /api/switching/destinations: the order, the cap and the merge of the rows

\* v2.2, the second WITH member of the statement:
\* grouped AS (SELECT destination, COUNT(DISTINCT user_id) AS users, ...
\*             FROM elsewhere GROUP BY destination)
switchingGrouped(E) ==
  {[destination |-> d, users |-> COUNT({e.user_id : e \in {r \in E : r.destination = d}})] :
     d \in {e.destination : e \in E}}

\* CASE WHEN users < $5 THEN 'OTHER_SUPPRESSED' ELSE destination END
switchingKey(g, k) == IF g.users < k THEN OTHER_SUPPRESSED ELSE g.destination

\* v2.2, the last SELECT of the statement: SUM(users) AS users ... FROM
\* grouped GROUP BY the key
switchingMerged(GR, k) ==
  LET G(key) == {g \in GR : switchingKey(g, k) = key}
  IN {[destination |-> switchingKey(r, k),
       users |-> SUM(G(switchingKey(r, k)), [g \in G(switchingKey(r, k)) |-> g.users])] : r \in GR}

\* the rows that grouped and the last SELECT of the v2.2 statement give over
\* the cohort and elsewhere members of the same statement (the statement as
\* a whole is refused by the store: SwitchingDestinations)
SwitchingMergeV22(start, end, reconcile_ok_, k_threshold_) ==
  /\ resp = NoResp
  /\ cte = NoCte
  /\ LET k == parseKThreshold(k_threshold_)
         C == switchingCohort(ledger, parseDate(start), parseDate(end), X)
         E == elsewhere(ledger, C, parseDate(start), parseDate(end), parseBool(reconcile_ok_), X)
         GR == switchingGrouped(E)
     IN cte' = [query |-> "switching/destinations grouped", failed |-> FALSE,
                k_threshold |-> k, cohort |-> C, grouped |-> GR,
                merged |-> switchingMerged(GR, k)]
  /\ UNCHANGED <<ledger, resp, browser>>

\* the store of the switching rows: a mall of sixteen shoppers of X where
\* the n-th destination was reached by n of them, and single invoices
MallUsers ==
  <<"s01", "s02", "s03", "s04", "s05", "s06", "s07", "s08",
    "s09", "s10", "s11", "s12", "s13", "s14", "s15", "s16">>

MallDestinations ==
  <<"D01", "D02", "D03", "D04", "D05", "D06", "D07", "D08",
    "D09", "D10", "D11", "D12", "D13", "D14", "D15", "D16">>

Mall ==
  {StoreLine(MallUsers[u], 1, X, 1, FOOD, B1, 2000) : u \in DOMAIN MallUsers}
  \cup {StoreLine(MallUsers[p[1]], 1, MallDestinations[p[2]], 1, FOOD, B1, 2000) :
          p \in {q \in (DOMAIN MallUsers) \X (DOMAIN MallDestinations) : q[1] <= q[2]}}

SwitchingBatches ==
  {Mall,
   {StoreLine("u1", 1, X, 1, FOOD, B1, 2000)}, {StoreLine("u1", 1, Y, 1, FOOD, B1, 2000)},
   {StoreLine("u1", 1, Z, 1, FOOD, B1, 2000)}, {StoreLine("u1", 3, Y, 1, FOOD, B1, 2000)},
   {StoreLine("u2", 1, X, 2, FOOD, B1, 2000)}, {StoreLine("u2", 1, Y, 2, FOOD, B1, 2000)},
   {StoreLine("u2", 2, Z, 1, FOOD, B1, 2000)}, {StoreLine("u3", 1, Y, 1, FOOD, B1, 2000)}}

IngestSwitching ==
  /\ Cardinality({b \in SwitchingBatches : b \subseteq ledger}) < MaxBatches
  /\ \E b \in SwitchingBatches :
       /\ ~(b \subseteq ledger)
       /\ ledger' = ledger \cup b
  /\ resp' = NoResp
  /\ cte' = NoCte
  /\ UNCHANGED browser

SwitchingKThresholds == {NullNum, 1, 2}

NextSwitching ==
  \/ IngestSwitching
  \/ \E r \in ReconcileValues, k \in SwitchingKThresholds, f \in BOOLEAN :
       SwitchingDestinationsV21(1, 3, r, k, f)
  \/ SwitchingDestinations(1, 3)
  \/ \E r \in ReconcileValues, k \in SwitchingKThresholds : SwitchingMergeV22(1, 3, r, k)

SpecSwitching == Init /\ [][NextSwitching]_vars

\* the cohort members with a qualifying line at destination d
ReachedBy(d) ==
  {u \in cte.cohort : \E l \in ledger : /\ l.user = u
                                        /\ InWindow(l, resp.start, resp.end)
                                        /\ reconcileFilter(l, resp.reconcile_ok)
                                        /\ l.issuer = d}

SwitchingSingleRowsBounded ==
  /\ SwitchingOk =>
       \A i \in DOMAIN resp.data :
         /\ resp.data[i].users <= COUNT(cte.cohort)
         /\ resp.data[i].pct <= 10000
         /\ resp.data[i].destination # OTHER_SUPPRESSED
  /\ cte.query = "switching/destinations grouped" =>
       /\ \A g \in cte.grouped : g.users <= COUNT(cte.cohort)
       /\ \A m \in cte.merged :
            m.destination # OTHER_SUPPRESSED => m.users <= COUNT(cte.cohort)
       /\ \A m \in cte.merged :
            m.destination = OTHER_SUPPRESSED =>
              m.users = SUM({g \in cte.grouped : g.users < cte.k_threshold},
                            [g \in {q \in cte.grouped : q.users < cte.k_threshold} |-> g.users])

\* ============================================================ THE DASHBOARD PAGE
\* src/public/app.js: the filters, the hierarchical category dropdowns and
\* their cache, the module loaders. A request the page has sent stays in
\* pending until its answer arrives; answers arrive in any order. The
\* server answers from ledger, which does not change while the page is open.
\* Controls the model leaves at their defaults: reconcile, k threshold, peer
\* scope, category level (the status strip shows only these).

MaxRequests == 5
MaxLoads == 2

\* rows of the store behind the page: five shoppers of X with milk and
\* juice in month 1, one of them with bread in month 2 and milk at Y
PageLine(u, m, i, a, prod, comm) ==
  [user |-> u, month |-> m, issuer |-> i, amount |-> a, cat |-> prod[1],
   category_l1 |-> prod[1], category_l2 |-> prod[2], category_l3 |-> prod[3], category_l4 |-> prod[4],
   commerce_l1 |-> comm[1], commerce_l2 |-> comm[2], commerce_l3 |-> comm[3], commerce_l4 |-> comm[4]]

PageLines ==
  {PageLine(u, 1, X, 4000, <<FOOD, "DAIRY", "MILK", "WHOLE">>, <<"GROCERY", "FRESH", Null, Null>>) :
     u \in Crowd}
  \cup {PageLine(u, 1, X, 2000, <<DRINK, "JUICE", "ORANGE", Null>>, <<"GROCERY", Null, Null, Null>>) :
          u \in Crowd}
  \cup {PageLine("u3", 2, X, 1000, <<FOOD, "BAKERY", "BREAD", Null>>, <<"GROCERY", "FRESH", Null, Null>>),
        PageLine("u3", 1, Y, 1000, <<FOOD, "DAIRY", "MILK", "SKIMMED">>, <<"KIOSK", Null, Null, Null>>)}

\* the address of a request: endpoint and query parameters
Url(endpoint, start, end, issuer_ruc, level, domain, path, category_value) ==
  [endpoint |-> endpoint, start |-> start, end |-> end, issuer_ruc |-> issuer_ruc,
   level |-> level, domain |-> domain, path |-> path, category_value |-> category_value]

\* a request in flight and the code that awaits it: fn is the awaiting
\* function, arg its select or module, then what follows that function,
\* signal the controller whose signal the request was given
Fetch(seq, url, signal, fn, arg, then) ==
  [seq |-> seq, url |-> url, signal |-> signal, aborted |-> FALSE,
   fn |-> fn, arg |-> arg, then |-> then]

\* the page as the handlers see it: filters, cache, document, requests
Page == [f |-> globalFilters, c |-> childrenCache, d |-> dom, p |-> pending, s |-> started]

\* the requests for a dropdown of the filter bar, and those of fetchAPI
ForDropdown(who) == who[1] \in {"loadRetailers", "populateCategoryDropdown"}
ForModule(who) == ~ForDropdown(who)

\* the page after a handler ran (no handler that runs assigns abortController)
Becomes(P) ==
  /\ Len(SelectSeq(P.s, ForDropdown)) <= MaxRequests
  /\ Len(SelectSeq(P.s, ForModule)) <= MaxLoads
  /\ globalFilters' = P.f
  /\ childrenCache' = P.c
  /\ dom' = P.d
  /\ pending' = P.p
  /\ started' = P.s
  /\ UNCHANGED <<ledger, cte, resp, abortController>>

\* fetch(url): the request leaves the page
send(P, url, signal, fn, arg, then) ==
  [P EXCEPT !.p = @ \cup {Fetch(Len(P.s) + 1, url, signal, fn, arg, then)},
            !.s = Append(@, <<fn, arg>>)]

\* value || null
orNull(v) == IF v = "" THEN Null ELSE v

\* select.innerHTML = '<option value="">...</option>': one option, which
\* becomes the selected one; disabled is not touched
innerHTML(select, placeholder) ==
  [select EXCEPT !.placeholder = placeholder, !.rows = {}, !.value = ""]

\* the values a user can pick in a select
optionValues(select) == {""} \cup {r.category_value : r \in select.rows}

\* syncFiltersFromUI
syncFiltersFromUI(f, d) ==
  [f EXCEPT !.issuer_ruc = orNull(d.filterIssuerRuc.value),
            !.start = d.filterStart,
            !.end = d.filterEnd,
            !.category_domain = d.filterCategoryDomain,
            !.category_path = [l1 |-> orNull(d.filterCat.l1.value), l2 |-> orNull(d.filterCat.l2.value),
                               l3 |-> orNull(d.filterCat.l3.value), l4 |-> orNull(d.filterCat.l4.value)]]

\* ----------------------------------------------- fetchCategoryChildren
\* cacheKey = `${level}:${JSON.stringify(parentPath)}`
cacheKey(level, parentPath) == <<level, parentPath>>

cached(cache, key) == {e \in cache : e.key = key}

\* childrenCache[cacheKey] = list
cachePut(cache, key, list) == (cache \ cached(cache, key)) \cup {[key |-> key, list |-> list]}

\* the parameters of the request: the window, the domain and the issuer of
\* globalFilters, the level, the parent path
childrenUrl(f, level, parentPath) ==
  Url("/api/categories/children", f.start, f.end, f.issuer_ruc, level, f.category_domain,
      [l1 |-> parentPath.l1, l2 |-> parentPath.l2, l3 |-> parentPath.l3, l4 |-> Null], Null)

\* the answer of the server to the request
childrenAnswer(L, url) ==
  categoriesChildrenAnswer(L, Request(url.start, url.end, url.issuer_ruc, Null, Null, Null, url.path),
                           url.level, url.domain).resp

\* data.data || []
dataOrEmpty(answer) == IF answer.status = 200 THEN answer.data ELSE {}

\* the rest of populateCategoryDropdown once the children are there
populated(select, children) ==
  [select EXCEPT !.placeholder = "Todas", !.rows = children, !.value = "", !.disabled = FALSE]

NoParent == [l1 |-> Null, l2 |-> Null, l3 |-> Null]

\* populateCategoryDropdown(selectId, level, parentPath), up to its await
\* when the list is not in the cache, to its end when it is
populateCategoryDropdown(P, sel, level, parentPath, then) ==
  LET hit == cached(P.c, cacheKey(level, parentPath))
      loading == [P EXCEPT !.d.filterCat[sel] = [innerHTML(@, "Cargando...") EXCEPT !.disabled = TRUE]]
  IN IF hit # {}
     THEN [loading EXCEPT !.d.filterCat[sel] = populated(@, (CHOOSE e \in hit : TRUE).list)]
     ELSE send(loading, childrenUrl(P.f, level, parentPath), "none",
               "populateCategoryDropdown", sel, then)

\* ----------------------------------------------- initCategoryHierarchy
\* the change handler of #filterCatL1
ChangeL1(val) ==
  /\ ~dom.filterCat.l1.disabled
  /\ val \in optionValues(dom.filterCat.l1) \ {dom.filterCat.l1.value}
  /\ LET P == [Page EXCEPT !.f.category_path = [l1 |-> orNull(val), l2 |-> Null, l3 |-> Null, l4 |-> Null],
                           !.d.filterCat.l1.value = val,
                           !.d.filterCat.l2 = innerHTML(@, "-"),
                           !.d.filterCat.l3 = innerHTML(@, "-"),
                           !.d.filterCat.l4 = innerHTML(@, "-")]
     IN Becomes(IF val # ""
                THEN populateCategoryDropdown(P, "l2", "l2", [NoParent EXCEPT !.l1 = val], "none")
                ELSE P)

\* the change handler of #filterCatL2
ChangeL2(val) ==
  /\ ~dom.filterCat.l2.disabled
  /\ val \in optionValues(dom.filterCat.l2) \ {dom.filterCat.l2.value}
  /\ LET P == [Page EXCEPT !.f.category_path.l2 = orNull(val),
                           !.f.category_path.l3 = Null,
                           !.f.category_path.l4 = Null,
                           !.d.filterCat.l2.value = val,
                           !.d.filterCat.l3 = innerHTML(@, "-"),
                           !.d.filterCat.l4 = innerHTML(@, "-")]
     IN Becomes(IF val # ""
                THEN populateCategoryDropdown(P, "l3", "l3",
                       [NoParent EXCEPT !.l1 = globalFilters.category_path.l1, !.l2 = val], "none")
                ELSE P)

\* the change handler of #filterCatL3
ChangeL3(val) ==
  /\ ~dom.filterCat.l3.disabled
  /\ val \in optionValues(dom.filterCat.l3) \ {dom.filterCat.l3.value}
  /\ LET P == [Page EXCEPT !.f.category_path.l3 = orNull(val),
                           !.f.category_path.l4 = Null,
                           !.d.filterCat.l3.value = val,
                           !.d.filterCat.l4 = innerHTML(@, "-")]
     IN Becomes(IF val # ""
                THEN populateCategoryDropdown(P, "l4", "l4",
                       [l1 |-> globalFilters.category_path.l1, l2 |-> globalFilters.category_path.l2,
                        l3 |-> val], "none")
                ELSE P)

\* the change handler of #filterCatL4
ChangeL4(val) ==
  /\ ~dom.filterCat.l4.disabled
  /\ val \in optionValues(dom.filterCat.l4) \ {dom.filterCat.l4.value}
  /\ Becomes([Page EXCEPT !.f.category_path.l4 = orNull(val), !.d.filterCat.l4.value = val])

\* the change handler of #filterCategoryDomain
ChangeDomain(val) ==
  /\ val \in VALID_DOMAINS \ {dom.filterCategoryDomain}
  /\ LET P == [Page EXCEPT !.f.category_domain = val,
                           !.f.category_path = NoPath,
                           !.c = {},
                           !.d.filterCategoryDomain = val,
                           !.d.filterCat = [l \in CatLevels |-> innerHTML(dom.filterCat[l], "-")]]
     IN Becomes(populateCategoryDropdown(P, "l1", "l1", NoParent, "none"))

\* an answer to a children request arrives: the list (or nothing, when the
\* answer is an error) goes into the cache under the key of the request,
\* and populateCategoryDropdown fills its select
ChildrenArrive(p) ==
  LET list == dataOrEmpty(childrenAnswer(ledger, p.url))
      key == cacheKey(p.url.level, [l1 |-> p.url.path.l1, l2 |-> p.url.path.l2, l3 |-> p.url.path.l3])
  IN [Page EXCEPT !.p = @ \ {p},
                  !.c = cachePut(@, key, list),
                  !.d.filterCat[p.arg] = populated(@, list)]

\* the request fails on the way (fetch rejects): catch, return []
ChildrenLost(p) ==
  [Page EXCEPT !.p = @ \ {p}, !.d.filterCat[p.arg] = populated(@, {})]

\* ----------------------------------------------- the module loaders
\* buildParams(overrides)
buildParams(f, endpoint, category_value) ==
  Url(endpoint, f.start, f.end, f.issuer_ruc, f.category_level, f.category_domain,
      f.category_path, IF category_value # Null THEN category_value ELSE f.category_value)

\* fetchAPI(endpoint, extraParams) up to its await: the request carries
\* abortController?.signal
fetchAPI(P, endpoint, category_value, fn, arg, then) ==
  send(P, buildParams(P.f, endpoint, category_value), abortController.signal, fn, arg, then)

\* the rows of /api/sow_leakage/by_category for a parsed request: the
\* statement of SowLeakageByCategory over the rows of the category path,
\* grouped by the column of the grouping level
captureData(L, filters) ==
  LET path == filters.applied.product_path
      cols == CAT_COLS[filters.applied.category_domain]
      F == {[l EXCEPT !.cat = l[filters.derived.group_by_col]] :
              l \in {r \in L : /\ (path.l1 # Null => r[cols.l1] = path.l1)
                               /\ (path.l2 # Null => r[cols.l2] = path.l2)
                               /\ (path.l3 # Null => r[cols.l3] = path.l3)
                               /\ (path.l4 # Null => r[cols.l4] = path.l4)}}
      C == captureCohort(F, filters.applied.start, filters.applied.end, filters.applied.issuer_ruc)
  IN {captureRow(r) :
        r \in captureMerged(grouped(peer_spend(F, filters.applied.start, filters.applied.end, C),
                                    filters.applied.issuer_ruc),
                            filters.applied.k_threshold)}

CategoryEndpoints == {"/api/leakage/tree", "/api/loyalty/brands"}

\* the answer of the server to a request of a module: 400 with the reasons
\* of parseFilters, 500 for the switching statement, else the echo of the
\* applied filters with the data (the rows for the capture endpoint; the
\* data of the other endpoints is not looked into by the model)
apiAnswer(L, url) ==
  LET filters == parseFilters(Request(url.start, url.end, url.issuer_ruc, url.level, url.domain,
                                      url.category_value, url.path),
                              Options(TRUE, TRUE, url.endpoint \in CategoryEndpoints,
                                      url.endpoint \notin CategoryEndpoints))
  IN IF ~filters.isValid
     THEN [endpoint |-> url.endpoint, status |-> 400, error |-> filters.invalid]
     ELSE IF url.endpoint = "/api/switching/destinations"
     THEN [endpoint |-> url.endpoint, status |-> 500, error |-> <<"Internal server error">>]
     ELSE [endpoint |-> url.endpoint, status |-> 200, filters |-> filters.applied,
           data |-> IF url.endpoint = "/api/sow_leakage/by_category"
                    THEN captureData(L, filters) ELSE {}]

showLoading(P) ==
  [P EXCEPT !.d.loadingOverlay.hidden = FALSE, !.d.btnApplyFilters.disabled = TRUE]

hideLoading(P) ==
  [P EXCEPT !.d.loadingOverlay.hidden = TRUE, !.d.btnApplyFilters.disabled = FALSE]

Toast(type, message) == [type |-> type, message |-> message]

\* the first request of the loader of a module
loaderEndpoint(module) ==
  CASE module = "overview" -> "/api/kpis/summary"
    [] module = "switching" -> "/api/switching/destinations"
    [] module = "basket" -> "/api/basket/breadth"
    [] OTHER -> "/api/sow_leakage/by_category"

\* the request of the loaders of leakage and loyalty for the category
categoryEndpoint(module) ==
  IF module = "leakage" THEN "/api/leakage/tree" ELSE "/api/loyalty/brands"

categorySelect(module) ==
  IF module = "leakage" THEN "leakageCategorySelect" ELSE "loyaltyCategorySelect"

\* loadModule(module), up to the await of its loader
loadModule(P, module) ==
  LET P1 == [P EXCEPT !.f = syncFiltersFromUI(P.f, P.d)]
  IN IF P1.f.issuer_ruc = Null
     THEN [P1 EXCEPT !.d.toast = Toast("warning", <<"Selecciona un comercio">>)]
     ELSE fetchAPI(showLoading(P1), loaderEndpoint(module), Null,
                   IF module \in {"leakage", "loyalty"} THEN "loadCategories" ELSE "load",
                   module, "hideLoading")

\* populateCategoryValueSelect(selectId, data): the rows that are not
\* unknown; the previous value when it is still an option, else the first
\* row that is not unknown (the rows come by spend at the issuer, descending)
populateCategoryValueSelect(select, data) ==
  LET rows == {r \in data : ~r.is_unknown}
      first == CHOOSE r \in rows : \A q \in rows : q.spend_in_x_usd <= r.spend_in_x_usd
  IN [select EXCEPT !.placeholder = "Selecciona categoria...",
                    !.rows = rows,
                    !.value = IF select.value # "" /\ \E r \in rows : r.category_value = select.value
                              THEN select.value
                              ELSE IF rows # {} THEN first.category_value ELSE ""]

\* the section of the module shows the answer
render(P, module, answer) == [P EXCEPT !.d.module[module] = answer]

\* an answer to a request of fetchAPI arrives, and the code that awaited it
\* runs to its next await or to its end
ApiArrive(p) ==
  LET answer == apiAnswer(ledger, p.url)
      P == [Page EXCEPT !.p = @ \ {p}]
  IN IF p.aborted
     THEN hideLoading(P)
     ELSE IF answer.status # 200
     THEN hideLoading([P EXCEPT !.d.toast = Toast("error", answer.error)])
     ELSE IF p.fn = "loadCategories"
     THEN LET P1 == [P EXCEPT !.d[categorySelect(p.arg)] = populateCategoryValueSelect(@, answer.data)]
              category == P1.d[categorySelect(p.arg)].value
          IN IF category # ""
             THEN fetchAPI(P1, categoryEndpoint(p.arg), category, "load", p.arg, "hideLoading")
             ELSE hideLoading(P1)
     ELSE hideLoading(render(P, p.arg, answer))

\* fetchDashboard(endpoints), up to its await: the requests given the
\* signal of the current controller are aborted, a new controller is made
\* and every endpoint is requested with its signal. No function or
\* listener of app.js calls fetchDashboard: it is no step of the page.
fetchDashboard(endpoints) ==
  LET signal == Len(started) + 1
      P == [Page EXCEPT !.p = {IF abortController # NoController /\ q.signal = abortController.signal
                               THEN [q EXCEPT !.aborted = TRUE] ELSE q : q \in pending}]
      sent[i \in 0..Len(endpoints)] ==
        IF i = 0 THEN P
        ELSE send(sent[i - 1], buildParams(globalFilters, endpoints[i], Null), signal,
                  "fetchDashboard", "results", "none")
  IN /\ abortController' = [signal |-> signal]
     /\ pending' = sent[Len(endpoints)].p
     /\ started' = sent[Len(endpoints)].s
     /\ UNCHANGED <<ledger, cte, resp, globalFilters, childrenCache, dom>>

\* ----------------------------------------------- DOMContentLoaded
\* the rows of /api/retailers
retailersAnswer(L) ==
  {[issuer_ruc |-> l.issuer, users |-> COUNT({g.user : g \in {h \in L : h.issuer = l.issuer}})] :
     l \in L}

\* after the L1 dropdown: the issuer of the address of the page, if any,
\* is selected (when it is among the options) and the overview is loaded
autoLoadFromUrl(P) ==
  IF P.d.location.issuer_ruc = Null THEN P
  ELSE loadModule([P EXCEPT !.d.filterIssuerRuc.value =
                     IF \E r \in P.d.filterIssuerRuc.rows : r.issuer_ruc = P.d.location.issuer_ruc
                     THEN P.d.location.issuer_ruc ELSE ""],
                  "overview")

\* loadRetailers ends, populateCategoryDropdown('#filterCatL1', 'l1', {}) starts
RetailersArrive(p) ==
  LET P == [Page EXCEPT !.p = @ \ {p},
                        !.d.filterIssuerRuc = [placeholder |-> "Selecciona comercio...",
                                               rows |-> retailersAnswer(ledger),
                                               value |-> "", disabled |-> FALSE]]
      P1 == populateCategoryDropdown(P, "l1", "l1", NoParent, "autoload")
  IN IF cached(P.c, cacheKey("l1", NoParent)) # {} THEN autoLoadFromUrl(P1) ELSE P1

\* what DOMContentLoaded does after the await of its L1 dropdown; the
\* change handlers do nothing after theirs
afterDropdown(p, P) == IF p.then = "autoload" THEN autoLoadFromUrl(P) ELSE P

\* ----------------------------------------------- the steps of the page
\* an answer arrives
Arrive ==
  \E p \in pending :
    Becomes(CASE p.fn = "populateCategoryDropdown" -> afterDropdown(p, ChildrenArrive(p))
              [] p.fn = "loadRetailers" -> RetailersArrive(p)
              [] OTHER -> ApiArrive(p))

\* a children request is lost on the way
Lose ==
  \E p \in pending :
    /\ p.fn = "populateCategoryDropdown"
    /\ Becomes(afterDropdown(p, ChildrenLost(p)))

\* the user picks a retailer, or edits the start date (no handler listens)
SelectIssuer(val) ==
  /\ val \in ({""} \cup {r.issuer_ruc : r \in dom.filterIssuerRuc.rows}) \ {dom.filterIssuerRuc.value}
  /\ Becomes([Page EXCEPT !.d.filterIssuerRuc.value = val])

EditStart(val) ==
  /\ val # dom.filterStart
  /\ Becomes([Page EXCEPT !.d.filterStart = val])

\* click on a navigation item
Navigate(module) ==
  Becomes(loadModule([Page EXCEPT !.d.active = module], module))

\* click on #btnApplyFilters (Enter in a filter input clicks it)
ApplyFilters ==
  /\ ~dom.btnApplyFilters.disabled
  /\ Becomes(loadModule([Page EXCEPT !.f = syncFiltersFromUI(globalFilters, dom)], dom.active))

\* click on #btnResetFilters
ResetFilters ==
  Becomes([Page EXCEPT
             !.d.filterIssuerRuc.value = "",
             !.d.filterStart = START_DEFAULT,
             !.d.filterEnd = END_DEFAULT,
             !.d.filterCategoryDomain = "product",
             !.d.filterCat = [l \in CatLevels |-> [dom.filterCat[l] EXCEPT !.value = ""]],
             !.f = [globalFilters EXCEPT !.issuer_ruc = Null, !.start = START_DEFAULT,
                                         !.end = END_DEFAULT, !.category_level = "l1",
                                         !.category_domain = "product", !.peer_scope = "all",
                                         !.reconcile_ok = "all", !.k_threshold = k_threshold_default,
                                         !.category_path = NoPath],
             !.c = {}])

\* the change handlers of #leakageCategorySelect and #loyaltyCategorySelect
ChangeCategory(module, val) ==
  /\ val \in optionValues(dom[categorySelect(module)]) \ {dom[categorySelect(module)].value}
  /\ LET P == [Page EXCEPT !.d[categorySelect(module)].value = val]
     IN Becomes(IF val # ""
                THEN fetchAPI(showLoading(P), categoryEndpoint(module), val, "load", module, "hideLoading")
                ELSE P)

\* DOMContentLoaded: the listeners are in place and loadRetailers has sent
\* its request; the address of the page names an issuer or not
PageOpenedAt(issuers) ==
  /\ ledger = PageLines /\ cte = NoCte /\ resp = NoResp
  /\ globalFilters = globalFiltersDefault
  /\ childrenCache = {}
  /\ abortController = NoController
  /\ \E i \in issuers : dom = [domDefault EXCEPT !.location = [issuer_ruc |-> i]]
  /\ pending = {Fetch(1, Url("/api/retailers", NullNum, NullNum, Null, Null, Null, NoPath, Null),
                      "none", "loadRetailers", "filterIssuerRuc", "populateCategoryDropdown")}
  /\ started = <<<<"loadRetailers", "filterIssuerRuc">>>>

PageOpened == PageOpenedAt({Null, X})

\* the page and its category dropdowns
NextHierarchy ==
  \/ Arrive
  \/ Lose
  \/ \E val \in {"", FOOD, DRINK} : ChangeL1(val)
  \/ \E val \in {"", "DAIRY", "BAKERY", "JUICE"} : ChangeL2(val)
  \/ \E val \in {"", "MILK", "BREAD", "ORANGE"} : ChangeL3(val)
  \/ \E val \in {"", "WHOLE", "SKIMMED"} : ChangeL4(val)

SpecHierarchy == PageOpened /\ [][NextHierarchy]_vars

\* the page, its filters and the cache of the dropdowns
NextCache ==
  \/ Arrive
  \/ \E val \in {"", FOOD} : ChangeL1(val)
  \/ \E val \in VALID_DOMAINS : ChangeDomain(val)
  \/ \E val \in {1, 0} : EditStart(val)
  \/ ApplyFilters
  \/ ResetFilters

SpecCache == PageOpenedAt({Null}) /\ [][NextCache]_vars

\* the page and its module loads
NextDashboard ==
  \/ Arrive
  \/ \E val \in {"", X} : SelectIssuer(val)
  \/ \E val \in {1, 2} : EditStart(val)
  \/ \E m \in {"capture", "leakage", "switching"} : Navigate(m)
  \/ ApplyFilters
  \/ \E val \in {"", FOOD, DRINK} : ChangeCategory("leakage", val)

SpecDashboard == PageOpened /\ [][NextDashboard]_vars

\* ------------------------------------------------------------------
\* THE DROPDOWNS AND THE SELECTION

\* the level above a level of the hierarchy
levelAbove(level) == CASE level = "l2" -> "l1" [] level = "l3" -> "l2" [] level = "l4" -> "l3"

\* the parent path the selection gives a level
selectedParent(level) ==
  [l1 |-> globalFilters.category_path.l1,
   l2 |-> IF level \in {"l3", "l4"} THEN globalFilters.category_path.l2 ELSE Null,
   l3 |-> IF level = "l4" THEN globalFilters.category_path.l3 ELSE Null]

\* the children of the selected parent path at a level: none while the
\* level above has no selection
childrenOfSelection(level) ==
  IF globalFilters.category_path[levelAbove(level)] = Null
  THEN {}
  ELSE dataOrEmpty(childrenAnswer(ledger, childrenUrl(globalFilters, level, selectedParent(level))))

ChildLoadsPending == {p \in pending : p.fn = "populateCategoryDropdown"}

\* C27: once every child load has completed, each child dropdown lists the
\* children of the currently selected parent path or is empty, and
\* category_path holds no deeper level chosen under another parent
C27_DropdownsFollowSelection ==
  ChildLoadsPending = {} =>
    \A level \in {"l2", "l3", "l4"} :
      /\ dom.filterCat[level].rows \in {{}, childrenOfSelection(level)}
      /\ globalFilters.category_path[level] # Null =>
           globalFilters.category_path[level] \in
             {r.category_value : r \in childrenOfSelection(level)}

\* what the page does keep: a dropdown lists what the server answered to
\* one of the parent paths, never a mixture, and a selected level is one of
\* the options of its dropdown
DropdownsListOneAnswer ==
  \A level \in {"l2", "l3", "l4"} :
    /\ \/ dom.filterCat[level].rows = {}
       \/ \E l1 \in {FOOD, DRINK}, l2 \in {Null, "DAIRY", "BAKERY", "JUICE"}, l3 \in {Null, "MILK", "BREAD", "ORANGE"} :
            dom.filterCat[level].rows =
              dataOrEmpty(childrenAnswer(ledger, childrenUrl(globalFilters, level,
                                                             [l1 |-> l1, l2 |-> l2, l3 |-> l3])))
    /\ dom.filterCat[level].value \in optionValues(dom.filterCat[level])

\* ------------------------------------------------------------------
\* THE CACHE AND THE FILTERS

\* the parent path of an L1 selection
under(val) == [NoParent EXCEPT !.l1 = val]

\* the list the L1 change handler finds in the cache for a selection
servedFromCache(val) == cached(childrenCache, cacheKey("l2", under(val)))

\* C26: a list served from the cache is the one the server gives under the
\* current start, end, issuer and domain, and an error answer is never
\* stored as an empty list
C26_ServedListsAreCurrent ==
  [][/\ \A val \in {FOOD, DRINK} :
          (ChangeL1(val) /\ servedFromCache(val) # {}) =>
            LET answer == childrenAnswer(ledger, childrenUrl(globalFilters, "l2", under(val)))
            IN /\ answer.status = 200
               /\ dom'.filterCat.l2.rows = answer.data
     /\ \A p \in ChildLoadsPending :
          (Becomes(afterDropdown(p, ChildrenArrive(p))) /\ childrenAnswer(ledger, p.url).status # 200) =>
            childrenCache' = childrenCache]_vars

\* what the page does keep: a change of domain and a reset empty the
\* cache, and a lookup that finds a list starts no request
CacheClearedByDomainAndReset ==
  [][/\ ((\E val \in VALID_DOMAINS : ChangeDomain(val)) \/ ResetFilters) => childrenCache' = {}
     /\ \A val \in {FOOD, DRINK} :
          (ChangeL1(val) /\ servedFromCache(val) # {}) =>
            /\ pending' = pending
            /\ dom'.filterCat.l2.rows = (CHOOSE e \in servedFromCache(val) : TRUE).list]_vars

\* ------------------------------------------------------------------
\* THE LOADS OF A MODULE

\* the loads started for a module so far, by their place in the history
startedFor(module) == {i \in DOMAIN started : started[i] = <<"load", module>>}

\* C25: a load started while an earlier one is in flight cancels it, and
\* the answer of the earlier one is never rendered: it never replaces what
\* a later load of the module has rendered, which would leave the module
\* with the earlier data once all its requests have settled
C25_StaleLoadNeverRendered ==
  [][\A p \in pending :
       (/\ p.fn = "load"
        /\ apiAnswer(ledger, p.url).status = 200
        /\ Becomes(ApiArrive(p))) =>
         ~ /\ \E i \in startedFor(p.arg) : i > p.seq
           /\ \A q \in pending' : q.arg # p.arg
           /\ dom.module[p.arg] # NoData
           /\ dom'.module[p.arg] # dom.module[p.arg]]_vars

\* what the page does keep: no controller is ever made, every request goes
\* out without a signal and none is aborted; an answer that is not an
\* error is rendered whenever it arrives
NoRequestIsEverAborted ==
  /\ abortController = NoController
  /\ \A p \in pending : p.signal = "none" /\ ~p.aborted


====
